---- MODULE Spec2Model ----
(***************************************************************************)
(* devinsight: the recursive file scanner (utils/fileScanner.scanDirectory)*)
(* and the comment scanner (utils/todoScanner.scanForTodos,                *)
(* getFilesWithMostTodos), run as the pipeline the commands use:           *)
(*   scanDirectory(root) -> scanForTodos(scan.files)                       *)
(*                       -> getFilesWithMostTodos(todoResults, limit).     *)
(*                                                                         *)
(* Strings are sequences of one-character strings, a path is the sequence  *)
(* of the names below the scan root (path.join of the root and the names). *)
(***************************************************************************)
EXTENDS Integers, Sequences, FiniteSets, TLC

\* ------------------------------------------------------------------ bounds

\* Most I/O failures (readdir, stat, readFile) injected into one run.
MaxFaults == 2
\* Largest limit passed to getFilesWithMostTodos.
MaxLimit == 3
\* The contents given to the patterns are made of at most this many pieces.
MaxPieces == 3
\* The menus shown in one interactive run.
MaxRounds == 3

\* ----------------------------------------------------------- characters

UpperLetters == <<"A","B","C","D","E","F","G","H","I","J","K","L","M",
                  "N","O","P","Q","R","S","T","U","V","W","X","Y","Z">>
LowerLetters == <<"a","b","c","d","e","f","g","h","i","j","k","l","m",
                  "n","o","p","q","r","s","t","u","v","w","x","y","z">>

\* String.prototype.toLowerCase on one character.
ToLowerChar(c) ==
  IF \E i \in 1..Len(UpperLetters) : UpperLetters[i] = c
  THEN LowerLetters[CHOOSE i \in 1..Len(UpperLetters) : UpperLetters[i] = c]
  ELSE c

ToLowerCase(s) == [i \in 1..Len(s) |-> ToLowerChar(s[i])]

\* The regular expression class \s and the line terminators "." refuses.
IsSpace(c) == c \in {" ", "\t", "\n", "\r"}
IsLineTerminator(c) == c \in {"\n", "\r"}

SetMax(S) == CHOOSE x \in S : \A y \in S : y <= x
SetMin(S) == CHOOSE x \in S : \A y \in S : x <= y

\* String.prototype.trim.
Trim(s) ==
  LET keep == {i \in 1..Len(s) : ~IsSpace(s[i])}
  IN  IF keep = {} THEN <<>> ELSE SubSeq(s, SetMin(keep), SetMax(keep))

\* path.extname of a base name: from the last dot to the end; empty when
\* there is no dot, when the only dot leads the name, or for "..".
ExtName(name) ==
  LET dots == {i \in 1..Len(name) : name[i] = "."}
  IN  IF dots = {} THEN <<>>
      ELSE LET d == SetMax(dots)
           IN  IF d = 1 THEN <<>>
               ELSE IF name[1] = "." /\ d = Len(name) /\ d = 2 THEN <<>>
               ELSE SubSeq(name, d, Len(name))

\* Array.prototype.includes on a sequence.
Includes(seq, x) == \E i \in 1..Len(seq) : seq[i] = x

\* ---------------------------------------------------- the tag patterns

\* Does the literal lit stand at position p of s (case-insensitive with /i)?
LiteralAt(s, p, lit) ==
  /\ p + Len(lit) - 1 <= Len(s)
  /\ \A i \in 1..Len(lit) : ToLowerChar(s[p + i - 1]) = ToLowerChar(lit[i])

\* Length of the longest run of \s characters starting at p.
SpaceRun(s, p) ==
  LET stops == {i \in p..Len(s) : ~IsSpace(s[i])}
  IN  IF stops = {} THEN Len(s) + 1 - p ELSE SetMin(stops) - p

\* Length of the longest run of "." characters starting at p.
DotRun(s, p) ==
  LET stops == {i \in p..Len(s) : IsLineTerminator(s[i])}
  IN  IF stops = {} THEN Len(s) + 1 - p ELSE SetMin(stops) - p

NoMatch == [ok |-> FALSE, group |-> 0, text |-> <<>>, end |-> 0]

\* \s*(.+) at p, greedy with backtracking: the positions p + k at which the
\* group can start after \s* took k characters (more is tried first).
LineStarts(s, p) ==
  {p + k : k \in {j \in 0..SpaceRun(s, p) :
                    p + j <= Len(s) /\ ~IsLineTerminator(s[p + j])}}

\* The lengths n of a lazy group (.+?) at p after which \s*\*\/ matches.
BlockLengths(s, p) ==
  {n \in 1..DotRun(s, p) :
     LiteralAt(s, p + n + SpaceRun(s, p + n), <<"*", "/">>)}

\* \s*(.+?)\s*\*\/ at p: the positions at which the group can start.
BlockStarts(s, p) ==
  {p + k : k \in {j \in 0..SpaceRun(s, p) : BlockLengths(s, p + j) # {}}}

\* Alternative g (2 is the block comment) after \s* at p.
GroupStarts(s, p, g) ==
  IF g = 2 THEN BlockStarts(s, p) ELSE LineStarts(s, p)

\* Backtracking: the first choice when it leads to a match, else the second.
OrElse(first, second) == IF first # {} THEN first ELSE second

\* Mutant: the pattern without the optional colon.
AfterKeyword_NoColon(s, p, g) == GroupStarts(s, p, g)

\* :?\s*(...) at p: the colon is taken when it is there, and given back only
\* when nothing matches after it.
AfterKeyword(s, p, g) ==
  OrElse(IF p <= Len(s) /\ s[p] = ":" THEN GroupStarts(s, p + 1, g) ELSE {},
         GroupStarts(s, p, g))

\* The match whose group starts at from and is len long; a block comment
\* also takes \s*\*\/ after the group.
MatchOf(s, from, len, g) ==
  [ok |-> TRUE, group |-> g, text |-> SubSeq(s, from, from + len - 1),
   end |-> IF g = 2 THEN from + len + SpaceRun(s, from + len) + 1
           ELSE from + len - 1]

\* The group at from: greedy (.+) to the end of the line, lazy (.+?) as
\* short as the closer allows.
GroupAt(s, from, g) ==
  MatchOf(s, from,
          IF g = 2 THEN SetMin(BlockLengths(s, from)) ELSE DotRun(s, from), g)

\* \s* is greedy: of the possible starts of the group, the last.
GroupFrom(s, starts, g) ==
  IF starts = {} THEN NoMatch ELSE GroupAt(s, SetMax(starts), g)

\* The openers of the three alternatives of a pattern:
\*   //\s*KW:?\s*(.+)  |  /\*\s*KW:?\s*(.+?)\s*\*\/  |  #\s*KW:?\s*(.+)
Openers == << <<"/", "/">>, <<"/", "*">>, <<"#">> >>

\* The keyword after the opener and \s*, which ends before q.
KeywordAt(s, q, kw, g) ==
  IF LiteralAt(s, q, kw) THEN GroupFrom(s, AfterKeyword(s, q + Len(kw), g), g)
  ELSE NoMatch

\* Alternative g at position p.
Alternative(s, p, kw, g) ==
  IF LiteralAt(s, p, Openers[g])
  THEN KeywordAt(s, p + Len(Openers[g]) + SpaceRun(s, p + Len(Openers[g])),
                 kw, g)
  ELSE NoMatch

\* The first of the alternatives that matched.
FirstMatch(alts) ==
  IF \E g \in DOMAIN alts : alts[g].ok
  THEN alts[SetMin({g \in DOMAIN alts : alts[g].ok})]
  ELSE NoMatch

\* One attempt of the pattern at position p: [ok, group, text, end].
MatchAt(s, p, kw) ==
  FirstMatch([g \in 1..3 |-> Alternative(s, p, kw, g)])

\* After a match the search resumes behind it, else one character on.
NextIndex(m, p) == IF m.ok THEN m.end + 1 ELSE p + 1
Found(m) == IF m.ok THEN <<m>> ELSE <<>>

\* String.prototype.matchAll with a /g pattern: the matches from left to
\* right.
RECURSIVE MatchAllFrom(_, _, _)
MatchStep(s, p, kw, m) == Found(m) \o MatchAllFrom(s, NextIndex(m, p), kw)
MatchAllFrom(s, p, kw) ==
  IF p > Len(s) THEN <<>> ELSE MatchStep(s, p, kw, MatchAt(s, p, kw))

MatchAll(s, kw) == MatchAllFrom(s, 1, kw)

\* match[1], match[2], match[3]: the groups of a match, the empty sequence
\* standing for the undefined of a group that took no part.
MatchGroup(m, g) == IF m.group = g THEN m.text ELSE <<>>

\* a || b on strings: a unless it is empty (or undefined).
Or(a, b) == IF a # <<>> THEN a ELSE b

\* (match[1] || match[2] || match[3] || '').trim()
CommentOf(m) ==
  Trim(Or(MatchGroup(m, 1), Or(MatchGroup(m, 2), Or(MatchGroup(m, 3), <<>>))))

\* The comments one pattern finds in a content, in match order.
MapComments(ms) == [i \in 1..Len(ms) |-> CommentOf(ms[i])]
Comments(s, kw) == MapComments(MatchAll(s, kw))

KW_TODO  == <<"T","O","D","O">>
KW_FIXME == <<"F","I","X","M","E">>
KW_HACK  == <<"H","A","C","K">>

\* ------------------------------------------------------ names, contents

N_a_js == <<"a", ".", "j", "s">>
N_b_py == <<"b", ".", "p", "y">>
N_x_js == <<"x", ".", "j", "s">>
N_node_modules == <<"n", "o", "d", "e", "_", "m", "o", "d", "u", "l", "e", "s">>
N_git == <<".", "g", "i", "t">>
N_dist == <<"d", "i", "s", "t">>
N_build == <<"b", "u", "i", "l", "d">>
N_next == <<".", "n", "e", "x", "t">>
N_coverage == <<"c", "o", "v", "e", "r", "a", "g", "e">>
N_src == <<"s", "r", "c">>
N_lib == <<"l", "i", "b">>
N_core == <<"c", "o", "r", "e">>
N_Main_JS == <<"M", "a", "i", "n", ".", "J", "S">>
N_data_bin == <<"d", "a", "t", "a", ".", "b", "i", "n">>
N_empty_css == <<"e", "m", "p", "t", "y", ".", "c", "s", "s">>
N_README == <<"R", "E", "A", "D", "M", "E">>
N_link == <<"l", "i", "n", "k">>
N_deep_ts == <<"d", "e", "e", "p", ".", "t", "s">>
N_out_js == <<"o", "u", "t", ".", "j", "s">>

\* todoScanner: the extensions whose files are read.
scanExtensions ==
  << <<".", "j", "s">>,
     <<".", "j", "s", "x">>,
     <<".", "t", "s">>,
     <<".", "t", "s", "x">>,
     <<".", "p", "y">>,
     <<".", "j", "a", "v", "a">>,
     <<".", "c", "p", "p">>,
     <<".", "c">>,
     <<".", "c", "s">>,
     <<".", "g", "o">>,
     <<".", "r", "s">>,
     <<".", "p", "h", "p">>,
     <<".", "r", "b">>,
     <<".", "s", "w", "i", "f", "t">>,
     <<".", "k", "t">>,
     <<".", "h", "t", "m", "l">>,
     <<".", "c", "s", "s">>,
     <<".", "s", "c", "s", "s">> >>

\* fileScanner: the default of options.excludeDirs.
DefaultExcludeDirs ==
  <<N_node_modules, N_git, N_dist, N_build, N_next, N_coverage>>

T_fix_this == <<"/", "/", " ", "T", "O", "D", "O", ":", " ", "f", "i", "x", " ", "t", "h", "i", "s">>
T_broken == <<"#", " ", "F", "I", "X", "M", "E", ":", " ", "b", "r", "o", "k", "e", "n">>
T_nope == <<"/", "/", " ", "H", "A", "C", "K", ":", " ", "n", "o", "p", "e">>
T_three == <<"/", "*", " ", "T", "O", "D", "O", ":", " ", "o", "n", "e", " ", "*", "/", "\n", "/", "/", " ", "f", "i", "x", "m", "e", " ", "t", "w", "o", "\n", "#", " ", "H", "a", "c", "k", ":", " ", "t", "h", "r", "e", "e", " ", "/", "/", " ", "H", "A", "C", "K", " ", "f", "o", "u", "r">>
T_two == <<"/", "/", " ", "T", "O", "D", "O", " ", "x", "\n", "/", "/", " ", "T", "O", "D", "O", ":", " ", "y">>
T_bin == <<"/", "/", " ", "T", "O", "D", "O", ":", " ", "x">>
T_plain == <<"l", "e", "t", " ", "a", " ", "=", " ", "1", ";">>

\* ------------------------------------------------------ the file system

Dir(name, children) ==
  [name |-> name, kind |-> "dir", children |-> children, content |-> <<>>]
File(name, content) ==
  [name |-> name, kind |-> "file", children |-> <<>>, content |-> content]
\* A symbolic link, socket or device: neither isDirectory() nor isFile().
Other(name) ==
  [name |-> name, kind |-> "other", children |-> <<>>, content |-> <<>>]

\* a.js, node_modules/x.js, b.py
ScenarioTree ==
  Dir(<<>>, << File(N_a_js, T_fix_this),
               Dir(N_node_modules, << File(N_x_js, T_nope) >>),
               File(N_b_py, T_broken) >>)

\* Three levels of directories, base names shared between directories.
NestedTree ==
  Dir(<<>>, << File(N_a_js, T_fix_this),
               Dir(N_src, << File(N_a_js, T_three),
                             Dir(N_lib, << Dir(N_core,
                                               << File(N_deep_ts, T_two) >>) >>),
                             File(N_b_py, T_plain) >>),
               Dir(N_lib, << File(N_x_js, T_nope) >>),
               File(N_b_py, T_broken) >>)

\* Excluded names below the root, odd extensions, an empty file, a link.
MixedTree ==
  Dir(<<>>, << Dir(N_src, << Dir(N_dist, << File(N_out_js, T_nope),
                                            Dir(N_lib,
                                                << File(N_x_js, T_fix_this) >>) >>),
                             File(N_Main_JS, T_two),
                             Other(N_link) >>),
               File(N_data_bin, T_bin),
               Dir(N_build, << File(N_a_js, T_broken) >>),
               File(N_empty_css, <<>>),
               File(N_README, T_plain) >>)

\* An empty directory.
EmptyTree == Dir(<<>>, <<>>)

Trees == {ScenarioTree, NestedTree, MixedTree, EmptyTree}

N_README_md == <<"R", "E", "A", "D", "M", "E", ".", "m", "d">>
N_tests == <<"t", "e", "s", "t", "s">>
N_package_json ==
  <<"p", "a", "c", "k", "a", "g", "e", ".", "j", "s", "o", "n">>
N_gitignore == <<".", "g", "i", "t", "i", "g", "n", "o", "r", "e">>
N_LICENSE == <<"L", "I", "C", "E", "N", "S", "E">>
N_docs == <<"d", "o", "c", "s">>
N_github == <<".", "g", "i", "t", "h", "u", "b">>
N_workflows == <<"w", "o", "r", "k", "f", "l", "o", "w", "s">>

\* A directory with everything healthCommand looks for. (What package.json
\* holds is not modelled: what the parse of it gives is chosen at the
\* check.)
HealthyTree ==
  Dir(<<>>, << File(N_README_md, T_plain),
               Dir(N_tests, <<>>),
               File(N_package_json, T_plain),
               File(N_gitignore, T_plain),
               File(N_LICENSE, T_plain),
               Dir(N_docs, <<>>),
               Dir(N_github, << Dir(N_workflows, <<>>) >>) >>)

\* The directories healthCommand is run in.
HealthTrees == {HealthyTree, EmptyTree}

\* The node at a path below node, or the node itself for the empty path.
RECURSIVE Lookup(_, _)
Lookup(node, path) ==
  IF path = <<>> THEN node
  ELSE LET i == CHOOSE j \in 1..Len(node.children) :
                   node.children[j].name = Head(path)
       IN  Lookup(node.children[i], Tail(path))

\* fs.readdir(dirPath, {withFileTypes: true}): the Dirents, in listing order.
Dirents(root, dirPath) ==
  LET c == Lookup(root, dirPath).children
  IN  [i \in 1..Len(c) |-> [name |-> c[i].name, kind |-> c[i].kind]]

\* fs.stat(path).size: the byte length of the file.
StatSize(root, path) == Len(Lookup(root, path).content)

\* fs.readFile(path, 'utf-8')
ReadFile(root, path) == Lookup(root, path).content

\* Error codes a readdir can fail with.
ErrorCodes == {"EACCES", "EPERM", "ENOENT", "EIO"}

\* ------------------------------------------------------- scanDirectory

\* maxDepth: a depth, or Infinity (the default).
Infinity == [finite |-> FALSE, n |-> 0]
Depth(n) == [finite |-> TRUE, n |-> n]
MaxDepths == {Depth(0), Depth(1), Infinity}

ExcludeOptions == {DefaultExcludeDirs, <<N_src, N_dist>>, <<>>}

VARIABLES
  tree,        \* the directory tree below the scan root
  excludeDirs, \* options.excludeDirs
  maxDepth,    \* options.maxDepth
  stack,       \* the scanDirectory activations, the innermost last
  scanStatus,  \* "idle", "running", "returned", "thrown" or "exited"
  scanResult,  \* what the outermost scanDirectory returned
  scanError,   \* the error it threw: [code, path]
  faults,      \* I/O failures so far
  listed,      \* directories whose readdir succeeded
  swallowed,   \* readdir failures the catch swallowed: [path, code]
  statFailed,  \* files whose stat failed
  tagStatus,   \* scanForTodos: "idle", "running" or "returned"
  tagFiles,    \* its argument
  tagIdx,      \* the index of the file the loop is at
  results,     \* its results object
  opened,      \* paths whose readFile succeeded, in order
  readFailed,  \* paths whose readFile failed
  topStatus,   \* getFilesWithMostTodos: "idle" or "returned"
  limit,       \* its limit argument
  top,         \* what it returned
  command,     \* the command that runs, or "direct" for a direct call
  isGit,       \* what isGitRepository() returned
  cmdStatus,   \* the command: "start", "checked", "running", "queries",
               \* "done" or "failed"
  gitPending,  \* the version-control queries not settled yet
  overlapped,  \* has a query settled while the scan was at work?
  health,      \* healthCommand: the lengths of passed, warnings and
               \* suggestions, and healthScore
  messages,    \* what the command and its action handler have printed
  menu         \* showInteractiveMenu: where it is, the choices made, the
               \* commands called and how each ended, the times it asked
               \* whether to continue, the answers, and the exit codes

scanVars == <<tree, excludeDirs, maxDepth, stack, scanStatus, scanResult,
              scanError, listed, swallowed, statFailed>>
tagVars  == <<tagStatus, tagFiles, tagIdx, results, opened, readFailed>>
topVars  == <<topStatus, limit, top>>
cmdVars  == <<command, isGit, cmdStatus, gitPending, overlapped, health,
              messages, menu>>
vars     == <<scanVars, faults, tagVars, topVars, cmdVars>>

\* The commands that scan and tag; "direct" is a call of the exported
\* functions with options and a limit of the caller's choice.
Commands ==
  {"direct", "analyze", "dashboard", "insights", "health", "report"}

\* Mutant: only the dashboard insists on a repository.
RequiresGit_OnlyDashboard(cmd) == cmd = "dashboard"

\* The commands that throw when isGitRepository() returned false.
RequiresGit(cmd) == cmd \in {"dashboard", "insights"}

\* The callers of scanForTodos.
TaggingCommands == {"direct", "dashboard", "insights", "report"}

\* What is printed. The error a command throws is printed by the action
\* handler as "Error:" and error.message.
M_NotGitError ==
  "Error: Not a Git repository. Please run this command in a Git repository."
M_NotGitWarning ==
  "Warning: Not a Git repository. Some features may be limited."
M_FsError == "Error: (message of the file system error)"
M_GitError == "Error: (message of the git error)"
M_ProjectName == "Project Name:"
M_Scanning == "Scanning directory..."
M_TotalFiles == "Total Files:"
M_TotalDirectories == "Total Directories:"
M_Languages == "Programming Languages Detected:"
M_LargestDirectories == "Largest Directories by File Count:"
M_NoSubdirectories == "No subdirectories found"
M_NoTopLevel == "No top-level directories found"
M_TotalDependencies == "Total Dependencies:"
M_NoPackageJson == "No package.json found"
M_AnalysisComplete == "Analysis complete!"

\* The queries dashboardCommand passes to Promise.all with the scan.
DashboardQueries ==
  {"getCurrentBranch", "getCommitsToday", "getCommitsThisWeek",
   "getLastCommit", "getLastCommitFiles"}

\* The queries reportCommand passes to Promise.all when isGit.
ReportQueries ==
  {"getCurrentBranch", "getCommitsToday", "getCommitsThisWeek",
   "getLastCommit", "getMostModifiedFiles"}

\* healthCommand before its first check.
NoHealth == [passed |-> 0, warnings |-> 0, suggestions |-> 0, score |-> 0]

\* No error thrown (yet).
\* The menu before any prompt; a command given on the command line leaves
\* it so.
NoMenu ==
  [pc |-> "none", chosen |-> <<>>, ran |-> <<>>, outcomes |-> <<>>,
   asked |-> 0, answers |-> <<>>, exits |-> <<>>]

NoError == [code |-> "none", path |-> <<>>]

EmptyScan == [files |-> <<>>, directories |-> <<>>, totalSize |-> 0]

EmptyTodos == [todos |-> <<>>, fixmes |-> <<>>, hacks |-> <<>>,
               totalCount |-> 0, fileCount |-> 0, fileDetails |-> <<>>]

\* One activation of scanDirectory: its dirPath, options.currentDepth, the
\* entries readdir gave, the loop index, and its results object.
NewFrame(dirPath, depth) ==
  [dirPath |-> dirPath, currentDepth |-> depth, pc |-> "readdir",
   entries |-> <<>>, i |-> 1, results |-> EmptyScan]

Init ==
  /\ command \in Commands
  /\ tree \in (IF command = "health" THEN HealthTrees ELSE Trees)
  /\ excludeDirs = DefaultExcludeDirs
  /\ maxDepth = Infinity
  /\ stack = <<>>
  /\ scanStatus = "idle"
  /\ scanResult = EmptyScan
  /\ scanError = NoError
  /\ faults = 0
  /\ listed = {}
  /\ swallowed = {}
  /\ statFailed = {}
  /\ tagStatus = "idle"
  /\ tagFiles = <<>>
  /\ tagIdx = 1
  /\ results = EmptyTodos
  /\ opened = <<>>
  /\ readFailed = {}
  /\ topStatus = "idle"
  /\ limit = 0
  /\ top = <<>>
  /\ isGit \in (IF command = "direct" THEN {FALSE} ELSE BOOLEAN)
  /\ cmdStatus = "start"
  /\ gitPending = {}
  /\ overlapped = FALSE
  /\ health = NoHealth
  /\ messages = {}
  /\ menu = NoMenu

Top == stack[Len(stack)]
SetTop(f) == [stack EXCEPT ![Len(stack)] = f]
Running == scanStatus = "running" /\ stack # <<>>
AtEntry == Running /\ Top.pc = "loop" /\ Top.i <= Len(Top.entries)
Entry == Top.entries[Top.i]
\* path.join(dirPath, entry.name)
FullPath == Append(Top.dirPath, Entry.name)

\* Mutant: the names are compared with the default list, not with the option.
IsExcluded_IgnoresOption(name, excl) == Includes(DefaultExcludeDirs, name)

\* excludeDirs.includes(entry.name)
IsExcluded(name, excl) == Includes(excl, name)

\* Mutant: the depth is not looked at.
WithinDepth_Unbounded(cur, md) == TRUE

\* Mutant: currentDepth <= maxDepth.
WithinDepth_Inclusive(cur, md) == ~md.finite \/ cur <= md.n

\* currentDepth < maxDepth
WithinDepth(cur, md) == ~md.finite \/ cur < md.n

\* Mutant: only EACCES is swallowed.
Swallowed_EaccesOnly(code) == code = "EACCES"

\* Mutant: a not-found error is swallowed as well.
Swallowed_AlsoNotFound(code) == code \in {"EACCES", "EPERM", "ENOENT"}

\* Mutant: the catch rethrows nothing.
Swallowed_Everything(code) == TRUE

\* The catch of scanDirectory: is an error with this code swallowed?
Swallowed(code) == ~(code # "EACCES" /\ code # "EPERM")

\* The options of the call: the commands pass none, so the defaults apply.
CallOptions(cmd) ==
  IF cmd = "direct" THEN ExcludeOptions \X MaxDepths
  ELSE {<<DefaultExcludeDirs, Infinity>>}

\* What analyzeCommand prints before it calls scanDirectory.
CallMessages(cmd, git) ==
  IF cmd = "analyze"
  THEN (IF git THEN {} ELSE {M_NotGitWarning}) \cup {M_ProjectName, M_Scanning}
  ELSE {}

\* scanDirectory(rootPath, options) is called: directly, or by a command
\* after its isGitRepository() check (dashboard and insights go on only in
\* a repository; insights awaits getMostModifiedFiles, which never throws,
\* before the scan; healthCommand makes its first checks before it);
\* dashboardCommand starts its five queries in the same Promise.all.
ScanDirectoryCall ==
  /\ scanStatus = "idle"
  /\ cmdStatus = (IF command = "health" THEN "checked" ELSE "start")
  /\ RequiresGit(command) => isGit
  /\ \E opt \in CallOptions(command) :
       /\ excludeDirs' = opt[1]
       /\ maxDepth' = opt[2]
  /\ stack' = << NewFrame(<<>>, 0) >>
  /\ scanStatus' = "running"
  /\ cmdStatus' = "running"
  /\ gitPending' = IF command = "dashboard" THEN DashboardQueries ELSE {}
  /\ messages' = messages \cup CallMessages(command, isGit)
  /\ UNCHANGED <<tree, scanResult, scanError, listed, swallowed, statFailed,
                 faults, tagVars, topVars, command, menu, isGit, health, overlapped>>

\* await fs.readdir(dirPath) succeeds.
ReaddirOk ==
  /\ Running /\ Top.pc = "readdir"
  /\ stack' = SetTop([Top EXCEPT !.pc = "loop",
                                 !.entries = Dirents(tree, Top.dirPath)])
  /\ listed' = listed \cup {Top.dirPath}
  /\ UNCHANGED <<tree, excludeDirs, maxDepth, scanStatus, scanResult,
                 scanError, swallowed, statFailed, faults, tagVars, topVars, cmdVars>>

\* await fs.readdir(dirPath) fails with a code the catch swallows: the
\* activation returns its (empty) results.
ReaddirDenied ==
  /\ Running /\ Top.pc = "readdir" /\ faults < MaxFaults
  /\ \E code \in ErrorCodes :
       /\ Swallowed(code)
       /\ swallowed' = swallowed \cup {[path |-> Top.dirPath, code |-> code]}
  /\ stack' = SetTop([Top EXCEPT !.pc = "done"])
  /\ faults' = faults + 1
  /\ UNCHANGED <<tree, excludeDirs, maxDepth, scanStatus, scanResult,
                 scanError, listed, statFailed, tagVars, topVars, cmdVars>>

\* await fs.readdir(dirPath) fails with any other code: the catch rethrows,
\* and so does the catch of every enclosing activation, whose awaits of the
\* recursive call lie inside their try blocks. A command does not catch the
\* error: its action handler prints it and exits.
ReaddirThrows ==
  /\ Running /\ Top.pc = "readdir" /\ faults < MaxFaults
  /\ \E code \in ErrorCodes :
       /\ ~Swallowed(code)
       /\ scanError' = [code |-> code, path |-> Top.dirPath]
  /\ stack' = <<>>
  /\ scanStatus' = "thrown"
  /\ faults' = faults + 1
  /\ cmdStatus' = IF command = "direct" THEN cmdStatus ELSE "failed"
  /\ messages' = IF command = "direct" THEN messages
                 ELSE messages \cup {M_FsError}
  /\ UNCHANGED <<tree, excludeDirs, maxDepth, scanResult, listed, swallowed,
                 statFailed, tagVars, topVars, command, menu, isGit, health, gitPending,
                 overlapped>>

\* entry.isDirectory() and excludeDirs.includes(entry.name): continue.
SkipExcluded ==
  /\ AtEntry /\ Entry.kind = "dir" /\ IsExcluded(Entry.name, excludeDirs)
  /\ stack' = SetTop([Top EXCEPT !.i = @ + 1])
  /\ UNCHANGED <<tree, excludeDirs, maxDepth, scanStatus, scanResult,
                 scanError, listed, swallowed, statFailed, faults, tagVars,
                 topVars, cmdVars>>

\* Mutant: the directory is entered without being recorded.
EnterDirectory_NotRecorded ==
  /\ AtEntry /\ Entry.kind = "dir" /\ ~IsExcluded(Entry.name, excludeDirs)
  /\ WithinDepth(Top.currentDepth, maxDepth)
  /\ stack' = Append(
       SetTop([Top EXCEPT !.pc = "await"]),
       NewFrame(FullPath, Top.currentDepth + 1))
  /\ UNCHANGED <<tree, excludeDirs, maxDepth, scanStatus, scanResult,
                 scanError, listed, swallowed, statFailed, faults, tagVars,
                 topVars, cmdVars>>

\* A directory that is not excluded, within the depth limit: it is recorded
\* and scanDirectory is called on it with currentDepth + 1.
EnterDirectory ==
  /\ AtEntry /\ Entry.kind = "dir" /\ ~IsExcluded(Entry.name, excludeDirs)
  /\ WithinDepth(Top.currentDepth, maxDepth)
  /\ stack' = Append(
       SetTop([Top EXCEPT !.pc = "await",
                 !.results.directories = Append(@, FullPath)]),
       NewFrame(FullPath, Top.currentDepth + 1))
  /\ UNCHANGED <<tree, excludeDirs, maxDepth, scanStatus, scanResult,
                 scanError, listed, swallowed, statFailed, faults, tagVars,
                 topVars, cmdVars>>

\* A directory that is not excluded, at the depth limit: recorded only.
RecordDirectory ==
  /\ AtEntry /\ Entry.kind = "dir" /\ ~IsExcluded(Entry.name, excludeDirs)
  /\ ~WithinDepth(Top.currentDepth, maxDepth)
  /\ stack' = SetTop([Top EXCEPT !.i = @ + 1,
                        !.results.directories = Append(@, FullPath)])
  /\ UNCHANGED <<tree, excludeDirs, maxDepth, scanStatus, scanResult,
                 scanError, listed, swallowed, statFailed, faults, tagVars,
                 topVars, cmdVars>>

\* Mutant: a size of 0 is replaced by 1.
FileEntry_SizeOrOne(fullPath, name, size) ==
  [path |-> fullPath, name |-> name,
   size |-> IF size = 0 THEN 1 ELSE size,
   extension |-> ExtName(name)]

\* Mutant: the extension is stored in lower case.
FileEntry_Lowercases(fullPath, name, size) ==
  [path |-> fullPath, name |-> name, size |-> size,
   extension |-> ToLowerCase(ExtName(name))]

\* The file entry pushed for a regular file.
FileEntry(fullPath, name, size) ==
  [path |-> fullPath, name |-> name, size |-> size,
   extension |-> ExtName(name)]

\* Mutant: the file entry is put in front of the files found so far.
StatOk_Unshift ==
  /\ AtEntry /\ Entry.kind = "file"
  /\ LET size == StatSize(tree, FullPath)
     IN  stack' = SetTop([Top EXCEPT !.i = @ + 1,
           !.results.files = <<FileEntry(FullPath, Entry.name, size)>> \o @,
           !.results.totalSize = @ + size])
  /\ UNCHANGED <<tree, excludeDirs, maxDepth, scanStatus, scanResult,
                 scanError, listed, swallowed, statFailed, faults, tagVars,
                 topVars, cmdVars>>

\* entry.isFile() and fs.stat succeeds.
StatOk ==
  /\ AtEntry /\ Entry.kind = "file"
  /\ LET size == StatSize(tree, FullPath)
     IN  stack' = SetTop([Top EXCEPT !.i = @ + 1,
           !.results.files = Append(@, FileEntry(FullPath, Entry.name, size)),
           !.results.totalSize = @ + size])
  /\ UNCHANGED <<tree, excludeDirs, maxDepth, scanStatus, scanResult,
                 scanError, listed, swallowed, statFailed, faults, tagVars,
                 topVars, cmdVars>>

\* Mutant: the error of fs.stat leaves the inner try and the call.
StatFails_Throws ==
  /\ AtEntry /\ Entry.kind = "file" /\ faults < MaxFaults
  /\ stack' = <<>>
  /\ scanStatus' = "thrown"
  /\ scanError' = [code |-> "EIO", path |-> FullPath]
  /\ statFailed' = statFailed \cup {FullPath}
  /\ faults' = faults + 1
  /\ UNCHANGED <<tree, excludeDirs, maxDepth, scanResult, listed, swallowed,
                 tagVars, topVars, cmdVars>>

\* entry.isFile() and fs.stat throws: continue.
StatFails ==
  /\ AtEntry /\ Entry.kind = "file" /\ faults < MaxFaults
  /\ stack' = SetTop([Top EXCEPT !.i = @ + 1])
  /\ statFailed' = statFailed \cup {FullPath}
  /\ faults' = faults + 1
  /\ UNCHANGED <<tree, excludeDirs, maxDepth, scanStatus, scanResult,
                 scanError, listed, swallowed, tagVars, topVars, cmdVars>>

\* Mutant: an entry of another kind is followed like a directory.
SkipOther_Follows ==
  /\ AtEntry /\ Entry.kind \notin {"dir", "file"}
  /\ stack' = Append(SetTop([Top EXCEPT !.pc = "await"]),
                     NewFrame(FullPath, Top.currentDepth + 1))
  /\ UNCHANGED <<tree, excludeDirs, maxDepth, scanStatus, scanResult,
                 scanError, listed, swallowed, statFailed, faults, tagVars,
                 topVars, cmdVars>>

\* Neither a directory nor a regular file: nothing is done with the entry.
SkipOther ==
  /\ AtEntry /\ Entry.kind \notin {"dir", "file"}
  /\ stack' = SetTop([Top EXCEPT !.i = @ + 1])
  /\ UNCHANGED <<tree, excludeDirs, maxDepth, scanStatus, scanResult,
                 scanError, listed, swallowed, statFailed, faults, tagVars,
                 topVars, cmdVars>>

\* Mutant: an activation returns whatever it holds, at any point.
AtReturn_Always == Running

\* Has the innermost activation reached its return statement?
AtReturn ==
  /\ Running
  /\ \/ Top.pc = "done"
     \/ Top.pc = "loop" /\ Top.i > Len(Top.entries)

\* Mutant: the size of the subdirectory's files is not added.
Merge_DropsSize(res, sub) ==
  [files |-> res.files \o sub.files,
   directories |-> res.directories \o sub.directories,
   totalSize |-> res.totalSize]

\* Mutant: the files of the subdirectory are not pushed.
Merge_DropsFiles(res, sub) ==
  [files |-> res.files,
   directories |-> res.directories \o sub.directories,
   totalSize |-> res.totalSize]

\* Mutant: subResults are put in front of what the caller holds.
Merge_Prepends(res, sub) ==
  [files |-> sub.files \o res.files,
   directories |-> sub.directories \o res.directories,
   totalSize |-> res.totalSize + sub.totalSize]

\* subResults merged into the results of the awaiting activation.
Merge(res, sub) ==
  [files |-> res.files \o sub.files,
   directories |-> res.directories \o sub.directories,
   totalSize |-> res.totalSize + sub.totalSize]

\* A recursive call returns: the caller merges subResults and goes on.
SubdirectoryReturns ==
  /\ AtReturn /\ Len(stack) > 1
  /\ LET caller == stack[Len(stack) - 1]
     IN  stack' = [SubSeq(stack, 1, Len(stack) - 1) EXCEPT ![Len(stack) - 1] =
           [caller EXCEPT !.pc = "loop", !.i = @ + 1,
                          !.results = Merge(@, Top.results)]]
  /\ UNCHANGED <<tree, excludeDirs, maxDepth, scanStatus, scanResult,
                 scanError, listed, swallowed, statFailed, faults, tagVars,
                 topVars, cmdVars>>

\* The outermost call returns its results to the command.
ScanReturns ==
  /\ AtReturn /\ Len(stack) = 1
  /\ scanResult' = Top.results
  /\ scanStatus' = "returned"
  /\ stack' = <<>>
  /\ UNCHANGED <<tree, excludeDirs, maxDepth, scanError, listed, swallowed,
                 statFailed, faults, tagVars, topVars, cmdVars>>

ScanNext ==
  \/ ScanDirectoryCall
  \/ ReaddirOk
  \/ ReaddirDenied
  \/ ReaddirThrows
  \/ SkipExcluded
  \/ EnterDirectory
  \/ RecordDirectory
  \/ StatOk
  \/ StatFails
  \/ SkipOther
  \/ SubdirectoryReturns
  \/ ScanReturns

\* --------------------------------------------------------- scanForTodos

TagAtFile == tagStatus = "running" /\ tagIdx <= Len(tagFiles)
TagFile == tagFiles[tagIdx]

\* Mutant: the extension is compared as it is written.
IsCodeFile_CaseSensitive(name) == Includes(scanExtensions, ExtName(name))

\* scanExtensions.includes(path.extname(file.name).toLowerCase())
IsCodeFile(name) == Includes(scanExtensions, ToLowerCase(ExtName(name)))

\* Mutant: the items of a file are pushed last first.
Tagged_Reversed(name, comments) ==
  [i \in 1..Len(comments) |->
     [file |-> name, comment |-> comments[Len(comments) + 1 - i]]]

\* The items pushed to the aggregate: { file: file.name, comment }.
Tagged(name, comments) ==
  [i \in 1..Len(comments) |-> [file |-> name, comment |-> comments[i]]]

\* Mutant: every file read is reported.
HasComments_Always(todos, fixmes, hacks) == TRUE

\* hasComments after the three loops.
HasComments(todos, fixmes, hacks) ==
  Len(todos) > 0 \/ Len(fixmes) > 0 \/ Len(hacks) > 0

\* results.todos.length + results.fixmes.length + results.hacks.length
TotalCount(res) == Len(res.todos) + Len(res.fixmes) + Len(res.hacks)

\* Mutant: fileCount is incremented once per match.
PushFile_CountsMatches(res, file, t, f, h) ==
  [res EXCEPT
     !.todos  = @ \o Tagged(file.name, t),
     !.fixmes = @ \o Tagged(file.name, f),
     !.hacks  = @ \o Tagged(file.name, h),
     !.fileDetails =
        IF HasComments(t, f, h)
        THEN Append(@, [path |-> file.path, name |-> file.name,
                        todos |-> t, fixmes |-> f, hacks |-> h])
        ELSE @,
     !.fileCount = @ + Len(t) + Len(f) + Len(h)]

\* The results object after the matches of one file have been pushed.
PushFile(res, file, t, f, h) ==
  [res EXCEPT
     !.todos  = @ \o Tagged(file.name, t),
     !.fixmes = @ \o Tagged(file.name, f),
     !.hacks  = @ \o Tagged(file.name, h),
     !.fileDetails =
        IF HasComments(t, f, h)
        THEN Append(@, [path |-> file.path, name |-> file.name,
                        todos |-> t, fixmes |-> f, hacks |-> h])
        ELSE @,
     !.fileCount = IF HasComments(t, f, h) THEN @ + 1 ELSE @]

\* The results object after one file's content has been scanned.
ScanContent(res, file, content) ==
  PushFile(res, file, Comments(content, KW_TODO), Comments(content, KW_FIXME),
           Comments(content, KW_HACK))

\* Mutant: the tagger does not wait for the queries.
AllSettled_ScanOnly(status, pending) == status = "returned"

\* Has every promise the command awaits before the tagger been fulfilled:
\* the scan and, in the dashboard, the queries of the same Promise.all?
AllSettled(status, pending) == status = "returned" /\ pending = {}

\* A command calls scanForTodos(scanResults.files). (reportCommand awaits
\* detectLanguages, getLargestDirectories, getTopLevelDirectories and the
\* package.json readers in between; they leave scanResults as it is.)
ScanForTodosCall ==
  /\ AllSettled(scanStatus, gitPending)
  /\ command \in TaggingCommands
  /\ cmdStatus = "running" /\ tagStatus = "idle"
  /\ tagFiles' = scanResult.files
  /\ tagStatus' = "running"
  /\ tagIdx' = 1
  /\ results' = EmptyTodos
  /\ UNCHANGED <<scanVars, faults, opened, readFailed, topVars, cmdVars>>

\* The extension is not one of scanExtensions: continue.
SkipNonCode ==
  /\ TagAtFile /\ ~IsCodeFile(TagFile.name)
  /\ tagIdx' = tagIdx + 1
  /\ UNCHANGED <<scanVars, faults, tagStatus, tagFiles, results, opened,
                 readFailed, topVars, cmdVars>>

\* Mutant: a file whose read failed is counted.
ReadFails_CountsFile ==
  /\ TagAtFile /\ IsCodeFile(TagFile.name) /\ faults < MaxFaults
  /\ readFailed' = readFailed \cup {TagFile.path}
  /\ results' = [results EXCEPT !.fileCount = @ + 1]
  /\ faults' = faults + 1
  /\ tagIdx' = tagIdx + 1
  /\ UNCHANGED <<scanVars, tagStatus, tagFiles, opened, topVars, cmdVars>>

\* await fs.readFile throws: continue.
ReadFails ==
  /\ TagAtFile /\ IsCodeFile(TagFile.name) /\ faults < MaxFaults
  /\ readFailed' = readFailed \cup {TagFile.path}
  /\ faults' = faults + 1
  /\ tagIdx' = tagIdx + 1
  /\ UNCHANGED <<scanVars, tagStatus, tagFiles, results, opened, topVars, cmdVars>>

\* The content is read and the three patterns are run over it.
ScanFile ==
  /\ TagAtFile /\ IsCodeFile(TagFile.name)
  /\ results' = ScanContent(results, TagFile, ReadFile(tree, TagFile.path))
  /\ opened' = Append(opened, TagFile.path)
  /\ tagIdx' = tagIdx + 1
  /\ UNCHANGED <<scanVars, faults, tagStatus, tagFiles, readFailed, topVars, cmdVars>>

\* After the loop: totalCount is set and the results are returned.
ScanForTodosReturns ==
  /\ tagStatus = "running" /\ tagIdx > Len(tagFiles)
  /\ results' = [results EXCEPT !.totalCount = TotalCount(results)]
  /\ tagStatus' = "returned"
  /\ UNCHANGED <<scanVars, faults, tagFiles, tagIdx, opened, readFailed,
                 topVars, cmdVars>>

\* ------------------------------------------------ getFilesWithMostTodos

\* The default of the limit parameter.
DefaultLimit == 5
Limits == (0..MaxLimit) \cup {DefaultLimit}

\* The value stored under fileCounts[file.name].
CountEntry(file) ==
  [name |-> file.name, path |-> file.path,
   count |-> Len(file.todos) + Len(file.fixmes) + Len(file.hacks),
   todos |-> Len(file.todos), fixmes |-> Len(file.fixmes),
   hacks |-> Len(file.hacks)]

\* The key under which a file's entry is stored in fileCounts.
CountKey(file) == file.name

\* The indices of details in the order Object.values(fileCounts) lists the
\* properties: a key keeps the place of its first assignment and holds the
\* value of its last.  (The keys are file names with an extension, never
\* array indices, so the order is the insertion order.)
RECURSIVE ValuesFrom(_, _, _)
ValuesFrom(details, i, acc) ==
  IF i > Len(details) THEN acc
  ELSE IF \E j \in 1..(i - 1) : CountKey(details[j]) = CountKey(details[i])
       THEN ValuesFrom(details, i + 1, acc)
       ELSE LET last == SetMax({j \in i..Len(details) :
                          CountKey(details[j]) = CountKey(details[i])})
            IN  ValuesFrom(details, i + 1,
                           Append(acc, CountEntry(details[last])))

ObjectValues(details) == ValuesFrom(details, 1, <<>>)

\* Without the element at index i.
RemoveAt(seq, i) == SubSeq(seq, 1, i - 1) \o SubSeq(seq, i + 1, Len(seq))

\* Array.prototype.sort((a, b) => b.count - a.count): descending by count,
\* stable (elements that compare equal keep their order).
RECURSIVE SortByCountDesc(_)
SortByCountDesc(seq) ==
  IF seq = <<>> THEN <<>>
  ELSE LET i == SetMin({j \in 1..Len(seq) :
                  \A k \in 1..Len(seq) : seq[k].count <= seq[j].count})
       IN  <<seq[i]>> \o SortByCountDesc(RemoveAt(seq, i))

\* Mutant: slice(0, n + 1).
Slice0_OneMore(seq, n) ==
  SubSeq(seq, 1, IF n + 1 > Len(seq) THEN Len(seq) ELSE n + 1)

\* Array.prototype.slice(0, n)
Slice0(seq, n) ==
  LET end == IF n < 0 THEN (IF Len(seq) + n < 0 THEN 0 ELSE Len(seq) + n)
             ELSE IF n > Len(seq) THEN Len(seq) ELSE n
  IN  SubSeq(seq, 1, end)

GetFilesWithMostTodos(todoResults, lim) ==
  Slice0(SortByCountDesc(ObjectValues(todoResults.fileDetails)), lim)

\* The limit insightsCommand and reportCommand pass.
CommandLimit == 5

\* The limits of the call.
CallLimits(cmd) == IF cmd = "direct" THEN Limits ELSE {CommandLimit}

\* getFilesWithMostTodos(todoResults, limit) is called: directly, or by
\* insightsCommand or reportCommand (dashboardCommand does not call it).
GetFilesWithMostTodosCall ==
  /\ tagStatus = "returned" /\ topStatus = "idle"
  /\ command \in TaggingCommands \ {"dashboard"} /\ cmdStatus = "running"
  /\ \E l \in CallLimits(command) :
       /\ limit' = l
       /\ top' = GetFilesWithMostTodos(results, l)
  /\ topStatus' = "returned"
  /\ UNCHANGED <<scanVars, faults, tagVars, cmdVars>>

\* ------------------------------------------------------------ commands

\* dashboardCommand and insightsCommand throw when isGitRepository()
\* returned false; the action handler prints the error and exits.
NotAGitRepository ==
  /\ cmdStatus = "start" /\ RequiresGit(command)
  /\ ~isGit
  /\ cmdStatus' = "failed"
  /\ messages' = messages \cup {M_NotGitError}
  /\ UNCHANGED <<scanVars, faults, tagVars, topVars, command, menu, isGit, health,
                 gitPending, overlapped>>

\* reportCommand, in a repository, awaits its queries after the tagger and
\* getFilesWithMostTodos.
ReportGitCall ==
  /\ command = "report" /\ isGit /\ cmdStatus = "running"
  /\ topStatus = "returned"
  /\ gitPending' = ReportQueries
  /\ cmdStatus' = "queries"
  /\ UNCHANGED <<scanVars, faults, tagVars, topVars, command, menu, isGit, health,
                 overlapped, messages>>

\* Does the command still wait for its queries?
AwaitsQueries ==
  /\ gitPending # {}
  /\ cmdStatus \in {"running", "queries"}
  /\ scanStatus # "thrown"

\* One of the pending queries is fulfilled.
GitQueryResolves ==
  /\ AwaitsQueries
  /\ \E q \in gitPending : gitPending' = gitPending \ {q}
  /\ overlapped' = (overlapped \/ (Running /\ listed # {}))
  /\ UNCHANGED <<scanVars, faults, tagVars, topVars, command, menu, isGit, health,
                 cmdStatus, messages>>

\* One of the pending queries is rejected: Promise.all rejects, the command
\* throws, and the action handler prints the error and exits the process,
\* which ends a scan that is still at work.
GitQueryRejects ==
  /\ AwaitsQueries /\ faults < MaxFaults
  /\ \E q \in gitPending : gitPending' = gitPending \ {q}
  /\ cmdStatus' = "failed"
  /\ stack' = <<>>
  /\ scanStatus' = IF scanStatus = "running" THEN "exited" ELSE scanStatus
  /\ faults' = faults + 1
  /\ messages' = messages \cup {M_GitError}
  /\ UNCHANGED <<tree, excludeDirs, maxDepth, scanResult, scanError, listed,
                 swallowed, statFailed, tagVars, topVars, command, menu, isGit, health,
                 overlapped>>

\* The keys of languageMap in detectLanguages.
LanguageExtensions ==
  { <<".", "j", "s">>, <<".", "j", "s", "x">>, <<".", "t", "s">>,
    <<".", "t", "s", "x">>, <<".", "p", "y">>, <<".", "j", "a", "v", "a">>,
    <<".", "c", "p", "p">>, <<".", "c">>, <<".", "c", "s">>,
    <<".", "g", "o">>, <<".", "r", "s">>, <<".", "p", "h", "p">>,
    <<".", "r", "b">>, <<".", "s", "w", "i", "f", "t">>, <<".", "k", "t">>,
    <<".", "h", "t", "m", "l">>, <<".", "c", "s", "s">>,
    <<".", "s", "c", "s", "s">>, <<".", "j", "s", "o", "n">>,
    <<".", "m", "d">>, <<".", "y", "m", "l">>, <<".", "y", "a", "m", "l">> }

\* detectLanguages(files).length > 0
HasLanguages(files) ==
  \E i \in 1..Len(files) :
    ToLowerCase(files[i].extension) \in LanguageExtensions

\* excludeDirs of getLargestDirectories.
LargestExcludeDirs == <<N_node_modules, N_git, N_dist, N_build>>

\* Does getLargestDirectories find a directory to scan in the root?
HasSubdirectories(entries) ==
  \E i \in 1..Len(entries) :
    entries[i].kind = "dir" /\ ~Includes(LargestExcludeDirs, entries[i].name)

\* Does getTopLevelDirectories find a directory in the root?
HasTopLevel(entries) ==
  \E i \in 1..Len(entries) :
    /\ entries[i].kind = "dir"
    /\ Head(entries[i].name) # "."
    /\ entries[i].name # N_node_modules

\* hasPackageJson(rootPath): fs.access of package.json succeeds.
HasPackageJson(entries) ==
  \E i \in 1..Len(entries) : entries[i].name = N_package_json

\* What analyzeCommand prints after the scan. largest and topLevel tell whether
\* getLargestDirectories and getTopLevelDirectories returned something:
\* both return [] when their own readdir or scan throws.
AnalyzeMessages(files, entries, largest, topLevel) ==
  {M_TotalFiles, M_TotalDirectories, M_LargestDirectories,
   M_AnalysisComplete}
  \cup (IF HasLanguages(files) THEN {M_Languages} ELSE {})
  \cup (IF largest THEN {} ELSE {M_NoSubdirectories})
  \cup (IF topLevel THEN {} ELSE {M_NoTopLevel})
  \cup (IF HasPackageJson(entries) THEN {M_TotalDependencies}
        ELSE {M_NoPackageJson})

\* analyzeCommand after scanDirectory returned: it prints the counts, the
\* languages, the largest and the top-level directories and the dependency
\* summary, and returns.
AnalyzeReports ==
  /\ command = "analyze" /\ cmdStatus = "running"
  /\ scanStatus = "returned"
  /\ \E failed \in SUBSET {"largest", "top"} :
       /\ faults + Cardinality(failed) <= MaxFaults
       /\ faults' = faults + Cardinality(failed)
       /\ messages' = messages \cup
            AnalyzeMessages(scanResult.files, Dirents(tree, <<>>),
              "largest" \notin failed /\ HasSubdirectories(Dirents(tree, <<>>)),
              "top" \notin failed /\ HasTopLevel(Dirents(tree, <<>>)))
  /\ cmdStatus' = "done"
  /\ UNCHANGED <<scanVars, tagVars, topVars, command, menu, isGit, health, gitPending,
                 overlapped>>

\* Is there a node of one of the kinds at the path below node?
RECURSIVE Exists(_, _, _)
Exists(node, path, kinds) ==
  IF path = <<>> THEN node.kind \in kinds
  ELSE \E j \in 1..Len(node.children) :
         /\ node.children[j].name = Head(path)
         /\ Exists(node.children[j], Tail(path), kinds)

\* checkFileExists(rootPath, fileNames): fs.access succeeds for one of the
\* names; a name whose access fails, for whatever reason, is passed over.
\* The outcomes that are possible for the names (paths below the root).
CheckFileExists(root, paths) ==
  IF \E p \in paths : Exists(root, p, {"file", "dir", "other"})
  THEN BOOLEAN ELSE {FALSE}

\* checkDirectoryExists(rootPath, dirNames): fs.stat succeeds for one of
\* the names and it is a directory.
CheckDirectoryExists(root, paths) ==
  IF \E p \in paths : Exists(root, p, {"dir"}) THEN BOOLEAN ELSE {FALSE}

N_README_txt == <<"R", "E", "A", "D", "M", "E", ".", "t", "x", "t">>
N_readme_md == <<"r", "e", "a", "d", "m", "e", ".", "m", "d">>
N_test == <<"t", "e", "s", "t">>
N___tests__ == <<"_", "_", "t", "e", "s", "t", "s", "_", "_">>
N_spec == <<"s", "p", "e", "c">>
N_LICENSE_md == <<"L", "I", "C", "E", "N", "S", "E", ".", "m", "d">>
N_LICENSE_txt == <<"L", "I", "C", "E", "N", "S", "E", ".", "t", "x", "t">>
N_license_md == <<"l", "i", "c", "e", "n", "s", "e", ".", "m", "d">>
N_documentation ==
  <<"d", "o", "c", "u", "m", "e", "n", "t", "a", "t", "i", "o", "n">>
N_doc == <<"d", "o", "c">>
N_gitlab_ci_yml ==
  <<".", "g", "i", "t", "l", "a", "b", "-", "c", "i", ".", "y", "m", "l">>
N_travis_yml == <<".", "t", "r", "a", "v", "i", "s", ".", "y", "m", "l">>
N_azure_pipelines_yml ==
  <<"a", "z", "u", "r", "e", "-", "p", "i", "p", "e", "l", "i", "n", "e", "s",
    ".", "y", "m", "l">>
N_Jenkinsfile == <<"J", "e", "n", "k", "i", "n", "s", "f", "i", "l", "e">>

ReadmeNames == {<<N_README_md>>, <<N_README_txt>>, <<N_readme_md>>}
TestDirNames == {<<N_test>>, <<N_tests>>, <<N___tests__>>, <<N_spec>>}
GitignoreNames == {<<N_gitignore>>}
LicenseNames ==
  {<<N_LICENSE>>, <<N_LICENSE_md>>, <<N_LICENSE_txt>>, <<N_license_md>>}
DocsDirNames == {<<N_docs>>, <<N_documentation>>, <<N_doc>>}
CICDNames ==
  {<<N_github, N_workflows>>, <<N_gitlab_ci_yml>>, <<N_travis_yml>>,
   <<N_azure_pipelines_yml>>, <<N_Jenkinsfile>>}

\* The thresholds of depSummary.totalCount.
ManyDependencies == 50
LargeDependencies == 100
\* The values of depSummary.totalCount that are told apart.
DependencyCounts == {0, ManyDependencies + 1, LargeDependencies + 1}

\* The size above which a file is a large file.
LargeFileSize == 1024 * 1024

B(cond) == IF cond THEN 1 ELSE 0

\* healthCommand up to its call of scanDirectory: the checks of the
\* repository, the README, the test directory and package.json.
HealthChecks ==
  /\ command = "health" /\ cmdStatus = "start"
  /\ \E readme \in CheckFileExists(tree, ReadmeNames),
        tests \in CheckDirectoryExists(tree, TestDirNames),
        package \in CheckFileExists(tree, {<<N_package_json>>}),
        scripts \in BOOLEAN, deps \in DependencyCounts :
       health' = [health EXCEPT
         !.passed = B(isGit) + B(readme) + B(tests) + B(package)
                      + B(package /\ scripts)
                      + B(package /\ deps <= ManyDependencies),
         !.warnings = B(~isGit) + B(~readme) + B(~tests) + B(~package)
                        + B(package /\ ~scripts)
                        + B(package /\ deps > LargeDependencies),
         !.suggestions = B(/\ package /\ deps <= LargeDependencies
                           /\ deps > ManyDependencies)]
  /\ cmdStatus' = "checked"
  /\ UNCHANGED <<scanVars, faults, tagVars, topVars, command, menu, isGit,
                 gitPending, overlapped, messages>>

\* Mutant: the suggestions are counted as checks.
TotalChecks_WithSuggestions(p, w, s) == p + w + s

\* totalChecks = passed.length + warnings.length
TotalChecks(p, w, s) == p + w

\* Math.round(x) for x = num / den >= 0: the nearest integer, the upper
\* one at a tie. (For the counts healthCommand can reach, the ties of
\* (passed / total) * 100 are at total 8 and 16, where the floating-point
\* quotient is exact.)
Round(num, den) == (2 * num + den) \div (2 * den)

\* healthScore
HealthScore(p, total) == IF total > 0 THEN Round(p * 100, total) ELSE 0

\* The rest of healthCommand, after scanDirectory returned: the checks of
\* large files, .gitignore, the license, the documentation and CI/CD, and
\* the score.
HealthScores ==
  /\ command = "health" /\ cmdStatus = "running"
  /\ scanStatus = "returned"
  /\ \E gitignore \in CheckFileExists(tree, GitignoreNames),
        license \in CheckFileExists(tree, LicenseNames),
        docs \in CheckDirectoryExists(tree, DocsDirNames),
        cicd \in CheckFileExists(tree, CICDNames) :
       LET large == \E i \in 1..Len(scanResult.files) :
                      scanResult.files[i].size > LargeFileSize
           p == health.passed + B(~large) + B(gitignore) + B(license)
                  + B(docs) + B(cicd)
           w == health.warnings + B(large) + B(~gitignore /\ isGit)
           s == health.suggestions + B(~license) + B(~cicd)
       IN  health' = [passed |-> p, warnings |-> w, suggestions |-> s,
                      score |-> HealthScore(p, TotalChecks(p, w, s))]
  /\ cmdStatus' = "done"
  /\ UNCHANGED <<scanVars, faults, tagVars, topVars, command, menu, isGit,
                 gitPending, overlapped, messages>>

CommandNext ==
  \/ NotAGitRepository
  \/ HealthChecks
  \/ HealthScores
  \/ AnalyzeReports
  \/ ReportGitCall
  \/ GitQueryResolves
  \/ GitQueryRejects

TagNext ==
  \/ ScanForTodosCall
  \/ SkipNonCode
  \/ ReadFails
  \/ ScanFile
  \/ ScanForTodosReturns
  \/ GetFilesWithMostTodosCall

\* ------------------------------------------- the patterns on any content

\* The pieces the contents are made of.
P_slashes_todo == <<"/", "/", " ", "T", "O", "D", "O">>
P_hash_todo == <<"#", " ", "T", "O", "D", "O">>
P_block_todo == <<"/", "*", " ", "T", "O", "D", "O">>
P_colon == <<":">>
P_text == <<" ", "x">>
P_block_end == <<" ", "*", "/">>
P_newline == <<"\n">>
Pieces ==
  {P_slashes_todo, P_hash_todo, P_block_todo, P_colon, P_text, P_block_end,
   P_newline}

RECURSIVE Flatten(_)
Flatten(seqs) ==
  IF seqs = <<>> THEN <<>> ELSE Head(seqs) \o Flatten(Tail(seqs))

\* The contents of at most MaxPieces pieces.
PieceContents ==
  {Flatten(ps) : ps \in UNION {[1..n -> Pieces] : n \in 1..MaxPieces}}

\* scanForTodos is called directly with one file a.js, any of the contents
\* in it, that a scan of its directory returned.
MatchInit ==
  /\ command = "direct"
  /\ \E c \in PieceContents :
       /\ tree = Dir(<<>>, << File(N_a_js, c) >>)
       /\ scanResult = [files |-> << FileEntry(<<N_a_js>>, N_a_js, Len(c)) >>,
                        directories |-> <<>>, totalSize |-> Len(c)]
  /\ excludeDirs = DefaultExcludeDirs
  /\ maxDepth = Infinity
  /\ stack = <<>>
  /\ scanStatus = "returned"
  /\ scanError = NoError
  /\ faults = 0
  /\ listed = {<<>>}
  /\ swallowed = {}
  /\ statFailed = {}
  /\ tagStatus = "idle"
  /\ tagFiles = <<>>
  /\ tagIdx = 1
  /\ results = EmptyTodos
  /\ opened = <<>>
  /\ readFailed = {}
  /\ topStatus = "idle"
  /\ limit = 0
  /\ top = <<>>
  /\ isGit = FALSE
  /\ cmdStatus = "running"
  /\ gitPending = {}
  /\ overlapped = FALSE
  /\ health = NoHealth
  /\ messages = {}
  /\ menu = NoMenu

MatchNext ==
  \/ ScanForTodosCall
  \/ ScanFile
  \/ ScanForTodosReturns

MatchSpec == MatchInit /\ [][MatchNext]_vars

\* scanDirectory called on its own, with every combination of options. Each
\* step of a scan is the continuation of an await on a file system
\* operation that settles, so a scan that can take a step takes one.
ScanInit == Init /\ command = "direct"
ScanSpec == ScanInit /\ [][ScanNext]_vars /\ WF_vars(ScanNext)

\* ---- Interactive mode ----

\* The values of the choices of the first prompt.
MenuChoices == {"analyze", "dashboard", "insights", "health", "report", "exit"}

\* The switch: the commands called for a choice.
CommandOf(choice) ==
  CASE choice = "analyze" -> <<"analyze">>
    [] choice = "dashboard" -> <<"dashboard">>
    [] choice = "insights" -> <<"insights">>
    [] choice = "health" -> <<"health">>
    [] choice = "report" -> <<"report">>
    [] OTHER -> <<>>

\* The user picks a command at the first prompt: the switch calls it.
MenuChoice ==
  /\ menu.pc = "prompt" /\ Len(menu.chosen) < MaxRounds
  /\ \E choice \in MenuChoices \ {"exit"} :
       menu' = [menu EXCEPT !.chosen = Append(@, choice),
                            !.ran = @ \o CommandOf(choice),
                            !.pc = "running"]
  /\ UNCHANGED <<scanVars, faults, tagVars, topVars, command, isGit,
                 cmdStatus, gitPending, overlapped, health, messages>>

\* The user picks Exit: process.exit(0).
MenuExit ==
  /\ menu.pc = "prompt"
  /\ menu' = [menu EXCEPT !.chosen = Append(@, "exit"),
                          !.exits = Append(@, 0),
                          !.pc = "exited"]
  /\ UNCHANGED <<scanVars, faults, tagVars, topVars, command, isGit,
                 cmdStatus, gitPending, overlapped, health, messages>>

\* A prompt rejects. The first prompt of the outermost call is awaited
\* outside the try and the call itself has no catch, so the rejection is
\* unhandled and the exit code is that of the runtime: 1, or 0 from a
\* runtime that only warns. Any other prompt is awaited inside a try whose
\* catch calls process.exit(1).
PromptRejects ==
  /\ menu.pc \in {"prompt", "confirm"}
  /\ \E code \in {0, 1} :
       /\ code = 0 => menu.pc = "prompt" /\ menu.chosen = <<>>
       /\ menu' = [menu EXCEPT !.exits = Append(@, code), !.pc = "exited"]
  /\ UNCHANGED <<scanVars, faults, tagVars, topVars, command, isGit,
                 cmdStatus, gitPending, overlapped, health, messages>>

\* The command called returns (dashboard and insights throw outside a
\* repository): the second prompt is shown.
CommandReturns ==
  /\ menu.pc = "running"
  /\ RequiresGit(menu.ran[Len(menu.ran)]) => isGit
  /\ menu' = [menu EXCEPT !.outcomes = Append(@, "returned"),
                          !.asked = @ + 1,
                          !.pc = "confirm"]
  /\ UNCHANGED <<scanVars, faults, tagVars, topVars, command, isGit,
                 cmdStatus, gitPending, overlapped, health, messages>>

\* Mutant: after the catch the second prompt is shown.
CommandThrows_Asks ==
  /\ menu.pc = "running"
  /\ menu' = [menu EXCEPT !.outcomes = Append(@, "threw"),
                          !.asked = @ + 1,
                          !.pc = "confirm"]
  /\ UNCHANGED <<scanVars, faults, tagVars, topVars, command, isGit,
                 cmdStatus, gitPending, overlapped, health, messages>>

\* The command called throws: the catch prints the error, process.exit(1).
CommandThrows ==
  /\ menu.pc = "running"
  /\ menu' = [menu EXCEPT !.outcomes = Append(@, "threw"),
                          !.exits = Append(@, 1),
                          !.pc = "exited"]
  /\ UNCHANGED <<scanVars, faults, tagVars, topVars, command, isGit,
                 cmdStatus, gitPending, overlapped, health, messages>>

\* The user wants another action: showInteractiveMenu() is called again.
ConfirmYes ==
  /\ menu.pc = "confirm"
  /\ menu' = [menu EXCEPT !.answers = Append(@, TRUE), !.pc = "prompt"]
  /\ UNCHANGED <<scanVars, faults, tagVars, topVars, command, isGit,
                 cmdStatus, gitPending, overlapped, health, messages>>

\* The user wants no other action: process.exit(0).
ConfirmNo ==
  /\ menu.pc = "confirm"
  /\ menu' = [menu EXCEPT !.answers = Append(@, FALSE),
                          !.exits = Append(@, 0),
                          !.pc = "exited"]
  /\ UNCHANGED <<scanVars, faults, tagVars, topVars, command, isGit,
                 cmdStatus, gitPending, overlapped, health, messages>>

\* devinsight run without arguments, in or outside a repository.
MenuInit ==
  /\ command = "direct"
  /\ tree = EmptyTree
  /\ excludeDirs = DefaultExcludeDirs
  /\ maxDepth = Infinity
  /\ stack = <<>>
  /\ scanStatus = "idle"
  /\ scanResult = EmptyScan
  /\ scanError = NoError
  /\ faults = 0
  /\ listed = {}
  /\ swallowed = {}
  /\ statFailed = {}
  /\ tagStatus = "idle"
  /\ tagFiles = <<>>
  /\ tagIdx = 1
  /\ results = EmptyTodos
  /\ opened = <<>>
  /\ readFailed = {}
  /\ topStatus = "idle"
  /\ limit = 0
  /\ top = <<>>
  /\ isGit \in BOOLEAN
  /\ cmdStatus = "start"
  /\ gitPending = {}
  /\ overlapped = FALSE
  /\ health = NoHealth
  /\ messages = {}
  /\ menu = [NoMenu EXCEPT !.pc = "prompt"]

MenuNext ==
  \/ MenuChoice
  \/ MenuExit
  \/ PromptRejects
  \/ CommandReturns
  \/ CommandThrows
  \/ ConfirmYes
  \/ ConfirmNo

MenuSpec == MenuInit /\ [][MenuNext]_vars

Next == ScanNext \/ TagNext \/ CommandNext

Spec == Init /\ [][Next]_vars

\* ============================================================ properties

\* The directories whose readdir failed with an error the catch swallowed.
denied == {e.path : e \in swallowed}

\* The nodes of the tree below (and with) node, each with its path.
RECURSIVE Nodes(_, _)
Nodes(node, path) ==
  {[path |-> path, kind |-> node.kind]} \cup
  UNION {Nodes(node.children[j], Append(path, node.children[j].name)) :
           j \in 1..Len(node.children)}

\* The nodes below (and with) node.
RECURSIVE SubNodes(_)
SubNodes(node) ==
  {node} \cup UNION {SubNodes(node.children[j]) : j \in 1..Len(node.children)}

FilePaths == {n.path : n \in {m \in Nodes(tree, <<>>) : m.kind = "file"}}
DirPaths ==
  {n.path : n \in {m \in Nodes(tree, <<>>) : m.kind = "dir" /\ m.path # <<>>}}

Last(seq) == seq[Len(seq)]
Parent(path) == SubSeq(path, 1, Len(path) - 1)
IsPrefix(p, q) == Len(p) <= Len(q) /\ SubSeq(q, 1, Len(p)) = p
Below(q, p) == IsPrefix(p, q) /\ p # q

PathsOf(files) == [i \in 1..Len(files) |-> files[i].path]
Occurrences(seq, x) == Cardinality({i \in 1..Len(seq) : seq[i] = x})

RECURSIVE SumSizes(_)
SumSizes(files) ==
  IF files = <<>> THEN 0 ELSE Head(files).size + SumSizes(Tail(files))

\* The scan results in existence: those the activations are building, and
\* the one the outermost call returned.
ScanResults ==
  {stack[k].results : k \in 1..Len(stack)} \cup
  (IF scanStatus = "returned" THEN {scanResult} ELSE {})

\* C1: in every result of scanDirectory, of the outermost call and of every
\* recursive call, at its return and while it is built, totalSize is the sum
\* of the sizes of the entries of files.
C1_TotalSizeIsSum ==
  \A r \in ScanResults : r.totalSize = SumSizes(r.files)

\* C1 witness: a scan with a failed stat and a denied subdirectory returned
\* files from several directories with a positive total size.
C1_Witness ==
  /\ scanStatus = "returned"
  /\ statFailed # {} /\ denied # {}
  /\ scanResult.totalSize > 0
  /\ \E i, j \in 1..Len(scanResult.files) :
       Len(scanResult.files[i].path) < Len(scanResult.files[j].path)

\* C2: no recorded directory has a base name in the exclusion set, and no
\* recorded file lies below a directory with such a name, at any depth
\* below the scan root.
C2_ExcludedNeverAppear ==
  \A r \in ScanResults :
    /\ \A i \in 1..Len(r.directories) :
         ~Includes(excludeDirs, Last(r.directories[i]))
    /\ \A i \in 1..Len(r.files) :
         \A k \in 1..(Len(r.files[i].path) - 1) :
           ~Includes(excludeDirs, r.files[i].path[k])

\* C2 witness: a scan returned after it listed a directory that holds an
\* excluded directory with files and a subdirectory of its own.
C2_Witness ==
  /\ scanStatus = "returned"
  /\ \E d \in DirPaths :
       /\ Len(d) > 1
       /\ Includes(excludeDirs, Last(d))
       /\ Parent(d) \in listed
       /\ \E f \in FilePaths : Below(f, d) /\ Len(f) > Len(d) + 1

\* The root's immediate entries of a kind, as paths, in listing order.
IsFileEntry(e) == e.kind = "file"
IsDirEntry(e) == e.kind = "dir"
NameOf(e) == <<e.name>>
MapSeq(seq, Op(_)) == [i \in 1..Len(seq) |-> Op(seq[i])]
RootFiles == MapSeq(SelectSeq(Dirents(tree, <<>>), IsFileEntry), NameOf)
RootDirs == MapSeq(SelectSeq(Dirents(tree, <<>>), IsDirEntry), NameOf)
NotExcludedPath(d) == ~Includes(excludeDirs, Last(d))
StatSucceeded(f) == f \notin statFailed

DepthZeroReturned == scanStatus = "returned" /\ maxDepth = Depth(0)

\* C3 as stated: with maxDepth = 0 the files are exactly the regular files
\* among the root's entries, the directories the root's non-excluded
\* subdirectories, and no subdirectory is listed.
C3_AsStated ==
  DepthZeroReturned =>
    /\ PathsOf(scanResult.files) = RootFiles
    /\ scanResult.directories = SelectSeq(RootDirs, NotExcludedPath)
    /\ listed \subseteq {<<>>}

\* C3 amended: with maxDepth = 0 no subdirectory is listed; when the root's
\* listing succeeds the files are exactly the root's regular files whose stat
\* succeeded and the directories the root's non-excluded subdirectories, and
\* when it is denied both are empty.
C3_DepthZero ==
  DepthZeroReturned =>
    /\ listed \subseteq {<<>>}
    /\ denied \subseteq {<<>>}
    /\ <<>> \in listed =>
         /\ PathsOf(scanResult.files) = SelectSeq(RootFiles, StatSucceeded)
         /\ scanResult.directories = SelectSeq(RootDirs, NotExcludedPath)
    /\ <<>> \in denied => scanResult = EmptyScan

\* C3 witness: a scan with maxDepth = 0 of a root that has files and a
\* non-excluded subdirectory with files of its own returned.
C3_Witness ==
  /\ DepthZeroReturned
  /\ scanResult.files # <<>>
  /\ \E i \in 1..Len(scanResult.directories) :
       \E f \in FilePaths : Below(f, scanResult.directories[i])

TagReturned == tagStatus = "returned"

\* The contents of the files of the trees.
Contents ==
  {n.content : n \in UNION {SubNodes(t) : t \in Trees}}

\* The matches of all three kinds a content holds.
ContentMatchCount ==
  [c \in Contents |-> Len(Comments(c, KW_TODO)) + Len(Comments(c, KW_FIXME))
                      + Len(Comments(c, KW_HACK))]

\* The matches of all three kinds the content of the file at a path holds.
MatchCount(path) == ContentMatchCount[ReadFile(tree, path)]
HasMatch(path) == MatchCount(path) > 0

RECURSIVE SumMatches(_)
SumMatches(paths) ==
  IF paths = <<>> THEN 0 ELSE MatchCount(Head(paths)) + SumMatches(Tail(paths))

DetailCount(d) == Len(d.todos) + Len(d.fixmes) + Len(d.hacks)

\* C4: in every result scanForTodos returns, totalCount is the sum of the
\* lengths of todos, fixmes and hacks, fileCount is the length of fileDetails,
\* and every entry of fileDetails has a non-empty sequence.
C4_TagResultInvariants ==
  TagReturned =>
    /\ results.totalCount
         = Len(results.todos) + Len(results.fixmes) + Len(results.hacks)
    /\ results.fileCount = Len(results.fileDetails)
    /\ \A i \in 1..Len(results.fileDetails) :
         \/ results.fileDetails[i].todos # <<>>
         \/ results.fileDetails[i].fixmes # <<>>
         \/ results.fileDetails[i].hacks # <<>>

\* C4 witness: scanForTodos returned after an unreadable file, a file
\* without matches and at least two files with matches.
C4_Witness ==
  /\ TagReturned
  /\ readFailed # {}
  /\ results.fileCount >= 2
  /\ \E i \in 1..Len(opened) : ~HasMatch(opened[i])

\* C5: the files with an entry in fileDetails are the files read that hold a
\* match, each once and in the order read; fileCount counts those files and
\* the aggregate sequences hold one item per match.
C5_DetailsIffMatch ==
  tagStatus # "idle" =>
    /\ PathsOf(results.fileDetails) = SelectSeq(opened, HasMatch)
    /\ results.fileCount = Len(SelectSeq(opened, HasMatch))
    /\ TotalCount(results) = SumMatches(opened)
    /\ \A i \in 1..Len(results.fileDetails) :
         DetailCount(results.fileDetails[i])
           = MatchCount(results.fileDetails[i].path)
    /\ TagReturned => results.totalCount = SumMatches(opened)

\* C5 witness: scanForTodos returned after it read a file with three
\* matches and a file with none.
C5_Witness ==
  /\ TagReturned
  /\ \E i \in 1..Len(results.fileDetails) :
       DetailCount(results.fileDetails[i]) = 3
  /\ \E i \in 1..Len(opened) : ~HasMatch(opened[i])
  /\ results.totalCount > results.fileCount

TopReturned == topStatus = "returned"

\* C6: getFilesWithMostTodos returns at most limit entries, in non-increasing
\* order of count, each the entry of a file of fileDetails.
C6_TopFilesBounded ==
  TopReturned =>
    /\ Len(top) <= limit
    /\ \A i, j \in 1..Len(top) : i < j => top[i].count >= top[j].count
    /\ \A i \in 1..Len(top) :
         \E k \in 1..Len(results.fileDetails) :
           /\ results.fileDetails[k].path = top[i].path
           /\ results.fileDetails[k].name = top[i].name
           /\ DetailCount(results.fileDetails[k]) = top[i].count

\* C6 witness: a call with a limit of at least 2 that cut the list and
\* returned entries of different counts.
C6_Witness ==
  /\ TopReturned
  /\ limit >= 2 /\ Len(top) = limit
  /\ Len(results.fileDetails) > limit
  /\ top[1].count > top[Len(top)].count

\* C7: every entry of fileDetails is a candidate of its own with the count
\* of its file; the limit candidates with the highest counts are returned in
\* descending order, equal counts in the order of fileDetails.
C7_RanksEveryFile ==
  TopReturned =>
    top = Slice0(SortByCountDesc(MapSeq(results.fileDetails, CountEntry)),
                 limit)

T_text_fix_this == <<"f", "i", "x", " ", "t", "h", "i", "s">>
T_text_broken == <<"b", "r", "o", "k", "e", "n">>

ScenarioRun ==
  /\ tree = ScenarioTree
  /\ excludeDirs = DefaultExcludeDirs
  /\ statFailed = {} /\ denied = {} /\ readFailed = {}
  /\ TagReturned

\* C8: a.js with "// TODO: fix this", b.py with "# FIXME: broken" and
\* node_modules/x.js with "// HACK: nope", scanned with the default
\* exclusions and tagged without I/O failures: totalCount 2, the todo
\* "fix this", the fixme "broken", no hacks, fileCount 2, and x.js is
\* neither passed to nor read by scanForTodos.
C8_Scenario ==
  ScenarioRun =>
    /\ results.totalCount = 2
    /\ results.todos = << [file |-> N_a_js, comment |-> T_text_fix_this] >>
    /\ results.fixmes = << [file |-> N_b_py, comment |-> T_text_broken] >>
    /\ results.hacks = <<>>
    /\ results.fileCount = 2
    /\ \A i \in 1..Len(tagFiles) : tagFiles[i].name # N_x_js
    /\ \A i \in 1..Len(opened) : Last(opened[i]) # N_x_js

\* C8 witness: the scenario ran to the end, both files read.
C8_Witness == ScenarioRun /\ Len(opened) = 2

\* No directory of the tree has an excluded name, nothing failed, and the
\* depth is not limited.
PlainScan ==
  /\ \A d \in DirPaths : ~Includes(excludeDirs, Last(d))
  /\ statFailed = {} /\ denied = {}
  /\ maxDepth = Infinity

\* C9: a tree without excluded names, scanned without errors and without a
\* depth limit: every regular file is in files exactly once, every directory
\* but the root is in directories exactly once, and nothing else is in them.
C9_EverythingOnce ==
  (scanStatus = "returned" /\ PlainScan) =>
    /\ \A f \in FilePaths : Occurrences(PathsOf(scanResult.files), f) = 1
    /\ \A d \in DirPaths : Occurrences(scanResult.directories, d) = 1
    /\ Len(scanResult.files) = Cardinality(FilePaths)
    /\ Len(scanResult.directories) = Cardinality(DirPaths)

\* C9 witness: such a scan returned a file three directories below the root.
C9_Witness ==
  /\ scanStatus = "returned" /\ PlainScan
  /\ \E i \in 1..Len(scanResult.files) : Len(scanResult.files[i].path) = 4

\* readdir is called on a directory: no name on the way to it is excluded,
\* each step down is within the depth limit, and no directory above it was
\* denied.
Reached(d) ==
  \A k \in 1..Len(d) :
    /\ ~Includes(excludeDirs, d[k])
    /\ (~maxDepth.finite \/ k - 1 < maxDepth.n)
    /\ SubSeq(d, 1, k - 1) \notin denied

\* The place of a node in the listing of its parent.
EntryIndex(path) ==
  CHOOSE i \in 1..Len(Dirents(tree, Parent(path))) :
    Dirents(tree, Parent(path))[i].name = Last(path)

Range(seq) == {seq[i] : i \in 1..Len(seq)}

\* C10: a readdir that fails with EACCES or EPERM, of the root or of a
\* subdirectory, does not make scanDirectory throw; the call on that
\* directory returns an empty result, so nothing below the directory is in
\* any result; and the scan that returns holds every file (with a successful
\* stat) and every directory of the listings that were not denied.
C10_DeniedIsSkipped ==
  /\ scanStatus = "thrown" => scanError.code \notin {"EACCES", "EPERM"}
  /\ (Running /\ Top.dirPath \in denied) =>
       /\ Top.results = EmptyScan
       /\ ENABLED (SubdirectoryReturns \/ ScanReturns)
  /\ \A r \in ScanResults : \A d \in denied :
       /\ \A i \in 1..Len(r.files) : ~Below(r.files[i].path, d)
       /\ \A i \in 1..Len(r.directories) : ~Below(r.directories[i], d)
  /\ scanStatus = "returned" =>
       /\ Range(PathsOf(scanResult.files))
            = {f \in FilePaths : /\ Reached(Parent(f))
                                 /\ Parent(f) \notin denied
                                 /\ f \notin statFailed}
       /\ Range(scanResult.directories)
            = {d \in DirPaths : /\ Reached(Parent(d))
                                /\ Parent(d) \notin denied
                                /\ ~Includes(excludeDirs, Last(d))}

\* C10 witness: a scan returned after the listing of a subdirectory that
\* holds files was denied, with a file of a later sibling directory in the
\* result.
C10_Witness ==
  /\ scanStatus = "returned"
  /\ \E d \in denied :
       /\ d # <<>>
       /\ \E f \in FilePaths : Below(f, d)
       /\ \E i \in 1..Len(scanResult.files) :
            LET g == Parent(scanResult.files[i].path)
            IN  /\ g # <<>> /\ g # d
                /\ Parent(g) = Parent(d)
                /\ EntryIndex(g) > EntryIndex(d)

\* C11 as stated: a subdirectory whose listing fails with a not-found error
\* is skipped like a denied one, so the top-level call never throws for it.
C11_AsStated ==
  scanStatus = "thrown" =>
    ~(scanError.code = "ENOENT" /\ scanError.path # <<>>)

\* C11 amended: a not-found error of a listing is never swallowed; it
\* propagates out of the top-level call, which returns no result, and the
\* pipeline does not go on.
C11_NotFoundPropagates ==
  /\ \A e \in swallowed : e.code # "ENOENT"
  /\ (scanStatus = "thrown" /\ scanError.code = "ENOENT") =>
       /\ stack = <<>>
       /\ scanResult = EmptyScan
       /\ tagStatus = "idle" /\ topStatus = "idle"

\* C11 witness: the listing of a subdirectory failed with ENOENT after the
\* root and another directory were listed, and the scan threw.
C11_Witness ==
  /\ scanStatus = "thrown"
  /\ scanError.code = "ENOENT" /\ scanError.path # <<>>
  /\ \E d \in listed : d # <<>> /\ ~IsPrefix(d, scanError.path)

\* C12: an error of a listing that is neither a permission nor a not-found
\* error is never swallowed, at any depth: the top-level call throws it and
\* the caller has no result, whatever was scanned before.
C12_OtherErrorsPropagate ==
  /\ \A e \in swallowed : e.code \in {"EACCES", "EPERM", "ENOENT"}
  /\ (scanStatus = "thrown" /\ scanError.code = "EIO") =>
       /\ stack = <<>>
       /\ scanResult = EmptyScan
       /\ tagStatus = "idle" /\ topStatus = "idle"
  /\ scanStatus = "returned" => scanError = NoError

\* C12 witness: the listing of a directory two levels below the root failed
\* with EIO after three directories were listed, and the scan threw.
C12_Witness ==
  /\ scanStatus = "thrown"
  /\ scanError.code = "EIO" /\ Len(scanError.path) >= 2
  /\ Cardinality(listed) >= 3

\* The regular files listed after path in the directory of path.
LaterSiblingFiles(path) ==
  {g \in FilePaths : /\ Parent(g) = Parent(path)
                     /\ EntryIndex(g) > EntryIndex(path)}

\* C13: the step in which fs.stat of a regular file fails raises no error,
\* leaves files, directories and totalSize of the activation as they were and
\* moves on to the next entry of the same directory; the file is in no
\* result, and the files listed after it in its directory are in the result
\* that is returned unless their own stat failed.
C13_StatFailureSkipsFile ==
  /\ [][statFailed' # statFailed =>
          /\ scanStatus' = "running" /\ scanError' = NoError
          /\ Len(stack') = Len(stack)
          /\ Top'.dirPath = Top.dirPath
          /\ Top'.results = Top.results
          /\ Top'.pc = "loop" /\ Top'.i = Top.i + 1]_vars
  /\ [](\A r \in ScanResults : \A i \in 1..Len(r.files) :
          r.files[i].path \notin statFailed)
  /\ [](scanStatus = "returned" =>
          \A f \in statFailed : \A g \in LaterSiblingFiles(f) :
            g \in statFailed \/ g \in Range(PathsOf(scanResult.files)))

\* C13 witness: a scan returned with a positive totalSize after the stat of
\* a file failed, and a file listed later in the same directory is in files.
C13_Witness ==
  /\ scanStatus = "returned" /\ scanResult.totalSize > 0
  /\ \E f \in statFailed : \E g \in LaterSiblingFiles(f) :
       g \in Range(PathsOf(scanResult.files))

\* The comments of the three kinds in each content of the tree.
ContentComments ==
  [c \in Contents |-> [todos  |-> Comments(c, KW_TODO),
                       fixmes |-> Comments(c, KW_FIXME),
                       hacks  |-> Comments(c, KW_HACK)]]

\* The results of a call of scanForTodos(files) in which every read
\* succeeds, before totalCount is set.
RECURSIVE ScanAll(_, _)
ScanAll(files, res) ==
  IF files = <<>> THEN res
  ELSE ScanAll(Tail(files),
         IF ToLowerCase(ExtName(Head(files).name)) \in Range(scanExtensions)
         THEN LET cc == ContentComments[ReadFile(tree, Head(files).path)]
              IN  PushFile(res, Head(files), cc.todos, cc.fixmes, cc.hacks)
         ELSE res)

ReadSucceeded(file) == file.path \notin readFailed

\* C14: the step in which fs.readFile fails changes nothing in the results
\* and goes on to the next file; the results that are returned are those of
\* the same call, without read failures, on the files whose read did not
\* fail.
C14_ReadFailureSkipsFile ==
  /\ [][readFailed' # readFailed =>
          /\ results' = results
          /\ tagStatus' = "running" /\ tagIdx' = tagIdx + 1]_vars
  /\ [](TagReturned =>
          LET res == ScanAll(SelectSeq(tagFiles, ReadSucceeded), EmptyTodos)
          IN  results = [res EXCEPT !.totalCount = TotalCount(res)])

\* C14 witness: the tagger returned matches after the read of a file that
\* holds matches failed, and a file was read after the failure.
C14_Witness ==
  /\ TagReturned /\ results.totalCount > 0
  /\ \E i \in 1..Len(tagFiles) :
       /\ tagFiles[i].path \in readFailed /\ HasMatch(tagFiles[i].path)
       /\ \E j \in (i + 1)..Len(tagFiles) :
            tagFiles[j].path \in Range(opened)

\* The files the tagger has gone past.
TagVisited == {tagFiles[i] : i \in 1..SetMin({tagIdx - 1, Len(tagFiles)})}

\* The names of the files that items and details of the results refer to.
ResultNames ==
  {results.todos[i].file : i \in 1..Len(results.todos)} \cup
  {results.fixmes[i].file : i \in 1..Len(results.fixmes)} \cup
  {results.hacks[i].file : i \in 1..Len(results.hacks)} \cup
  {results.fileDetails[i].name : i \in 1..Len(results.fileDetails)}

\* C15: the tagger opens (or tries to open) a file iff the lower-cased
\* extension of its name is one of scanExtensions: a .bin file is never
\* opened and nothing in the results refers to it; a file named Main.JS is
\* opened and its matches are in the results.
C15_ReadsIffAllowlisted ==
  /\ tagStatus # "idle" =>
       /\ \A f \in TagVisited :
            (f.path \in Range(opened) \cup readFailed)
              <=> (ToLowerCase(ExtName(f.name)) \in Range(scanExtensions))
       /\ Range(opened) \cup readFailed \subseteq {f.path : f \in TagVisited}
       /\ \A p \in Range(opened) \cup readFailed :
            Last(p) \notin {N_data_bin, N_README}
       /\ N_data_bin \notin ResultNames
  /\ TagReturned =>
       \A f \in Range(tagFiles) :
         (f.name = N_Main_JS /\ f.path \notin readFailed) =>
           /\ f.path \in Range(opened)
           /\ \E i \in 1..Len(results.fileDetails) :
                /\ results.fileDetails[i].path = f.path
                /\ Len(results.fileDetails[i].todos) = 2

\* C15 witness: the tagger returned from a list that holds data.bin, whose
\* content has a TODO comment, and Main.JS, which was read.
C15_Witness ==
  /\ TagReturned
  /\ \E f \in Range(tagFiles) : f.name = N_data_bin /\ HasMatch(f.path)
  /\ \E f \in Range(tagFiles) :
       f.name = N_Main_JS /\ f.path \in Range(opened)
  /\ N_Main_JS \in ResultNames

\* Is path the path of a regular file of 0 bytes?
IsEmptyFile(path) == path \in FilePaths /\ ReadFile(tree, path) = <<>>

\* C16: a file of 0 bytes is pushed with size 0 in a step that leaves
\* totalSize as it was; when the tagger has read it, no item and no
\* fileDetails entry refers to it, and the tagger returns.
C16_EmptyFile ==
  /\ [][(/\ Running /\ AtEntry /\ Entry.kind = "file"
         /\ IsEmptyFile(FullPath) /\ statFailed' = statFailed
         /\ Len(stack') = Len(stack) /\ stack' # stack) =>
          /\ Top'.results.totalSize = Top.results.totalSize
          /\ Top'.results.files =
               Append(Top.results.files,
                      [path |-> FullPath, name |-> Entry.name, size |-> 0,
                       extension |-> ExtName(Entry.name)])
          /\ scanStatus' = "running"]_vars
  /\ [](\A r \in ScanResults : \A i \in 1..Len(r.files) :
          IsEmptyFile(r.files[i].path) => r.files[i].size = 0)
  /\ [](\A p \in Range(opened) : IsEmptyFile(p) =>
          /\ \A i \in 1..Len(results.fileDetails) :
               results.fileDetails[i].path # p
          /\ Last(p) \notin ResultNames
          /\ tagStatus = "running" =>
               ENABLED (SkipNonCode \/ ScanFile \/ ScanForTodosReturns))

\* C16 witness: the tagger returned after it read a 0-byte .css file that is
\* in files with size 0, in a scan with a positive totalSize.
C16_Witness ==
  /\ TagReturned /\ scanResult.totalSize > 0
  /\ \E i \in 1..Len(scanResult.files) :
       /\ scanResult.files[i].name = N_empty_css
       /\ scanResult.files[i].size = 0
       /\ scanResult.files[i].path \in Range(opened)

\* Is ext the part of name from its last dot on, as it is written?
IsSuffixOf(ext, name) ==
  /\ Len(ext) <= Len(name)
  /\ SubSeq(name, Len(name) - Len(ext) + 1, Len(name)) = ext

\* C17 as stated: the extension of every file entry is in lower case.
C17_AsStated ==
  \A r \in ScanResults : \A i \in 1..Len(r.files) :
    r.files[i].extension = ToLowerCase(r.files[i].extension)

\* C17 amended: the extension of a file entry is the part of its name from
\* the last dot on, in the case the name is written in, or empty when the
\* name has no dot after its first character: Main.JS gets .JS, README gets
\* the empty string.
C17_ExtensionVerbatim ==
  \A r \in ScanResults : \A i \in 1..Len(r.files) :
    LET ext == r.files[i].extension
        name == r.files[i].name
    IN  /\ name = Last(r.files[i].path)
        /\ IsSuffixOf(ext, name)
        /\ ext # <<>> => /\ Head(ext) = "." /\ Len(ext) < Len(name)
                         /\ \A k \in 2..Len(ext) : ext[k] # "."
        /\ ext = <<>> => \A k \in 2..Len(name) : name[k] # "."
        /\ name = N_Main_JS => ext = <<".", "J", "S">>
        /\ name = N_README => ext = <<>>

\* C17 witness: a scan returned Main.JS with the extension .JS and README
\* with an empty extension.
C17_Witness ==
  /\ scanStatus = "returned"
  /\ \E i \in 1..Len(scanResult.files) :
       /\ scanResult.files[i].name = N_Main_JS
       /\ scanResult.files[i].extension = <<".", "J", "S">>
  /\ \E i \in 1..Len(scanResult.files) :
       /\ scanResult.files[i].name = N_README
       /\ scanResult.files[i].extension = <<>>

\* C18 as stated: the files of one directory are contiguous in files.
C18_AsStated ==
  \A r \in ScanResults : \A i, k \in 1..Len(r.files) :
    (i < k /\ Parent(r.files[i].path) = Parent(r.files[k].path)) =>
      \A j \in i..k : Parent(r.files[j].path) = Parent(r.files[i].path)

\* C18 amended: the files of one directory appear in files in the order of
\* the listing, and a file placed between two of them is a file of that
\* directory or lies below a subdirectory that the listing returned between
\* the two.
C18_ListingOrder ==
  \A r \in ScanResults : \A i, k \in 1..Len(r.files) :
    (i < k /\ Parent(r.files[i].path) = Parent(r.files[k].path)) =>
      LET d == Parent(r.files[i].path)
      IN  /\ EntryIndex(r.files[i].path) < EntryIndex(r.files[k].path)
          /\ \A j \in (i + 1)..(k - 1) :
               LET p == r.files[j].path
               IN  /\ Below(p, d)
                   /\ EntryIndex(r.files[i].path)
                        < EntryIndex(SubSeq(p, 1, Len(d) + 1))
                   /\ EntryIndex(SubSeq(p, 1, Len(d) + 1))
                        < EntryIndex(r.files[k].path)

\* C18 witness: a scan returned two files of one directory with a file of
\* a subdirectory between them.
C18_Witness ==
  /\ scanStatus = "returned"
  /\ \E i, j, k \in 1..Len(scanResult.files) :
       /\ i < j /\ j < k
       /\ Parent(scanResult.files[i].path) = Parent(scanResult.files[k].path)
       /\ Parent(scanResult.files[j].path) # Parent(scanResult.files[i].path)

\* The first position at which two paths differ, neither a prefix of the
\* other.
FirstDiff(p, q) ==
  SetMin({n \in 1..SetMin({Len(p), Len(q)}) : p[n] # q[n]})

\* Does the depth-first traversal in listing order come to p before q?
DepthFirstBefore(p, q) ==
  \/ Below(q, p)
  \/ /\ ~IsPrefix(p, q) /\ ~IsPrefix(q, p)
     /\ EntryIndex(SubSeq(p, 1, FirstDiff(p, q)))
          < EntryIndex(SubSeq(q, 1, FirstDiff(p, q)))

\* C19: while a recursive call runs, the activations that await it stand
\* still, and the caller moves to its next entry only in the step in which
\* the call returns; files and directories of every result are in the order
\* of the depth-first traversal, so a directory precedes its descendants and
\* what lies below one directory is contiguous in both lists.
C19_DepthFirst ==
  /\ [][\A n \in 1..(Len(stack) - 1) :
          (n <= Len(stack') /\ stack'[n] # stack[n]) =>
            /\ n = Len(stack) - 1 /\ Len(stack') = n
            /\ stack[n].pc = "await"
            /\ \/ stack[Len(stack)].pc = "done"
               \/ stack[Len(stack)].i > Len(stack[Len(stack)].entries)
            /\ stack'[n].i = stack[n].i + 1]_vars
  /\ [](\A r \in ScanResults :
          /\ \A i, k \in 1..Len(r.files) :
               i < k => DepthFirstBefore(r.files[i].path, r.files[k].path)
          /\ \A i, k \in 1..Len(r.directories) :
               i < k => DepthFirstBefore(r.directories[i], r.directories[k])
          /\ \A d \in DirPaths :
               /\ \A i, k \in 1..Len(r.files) :
                    (i < k /\ Below(r.files[i].path, d)
                           /\ Below(r.files[k].path, d)) =>
                      \A j \in i..k : Below(r.files[j].path, d)
               /\ \A i, k \in 1..Len(r.directories) :
                    (i < k /\ IsPrefix(d, r.directories[i])
                           /\ IsPrefix(d, r.directories[k])) =>
                      \A j \in i..k : IsPrefix(d, r.directories[j]))

\* C19 witness: a scan returned a directory with a descendant directory and
\* a later sibling directory, and files below both siblings.
C19_Witness ==
  /\ scanStatus = "returned"
  /\ \E a, b, c \in Range(scanResult.directories) :
       /\ Below(b, a) /\ Parent(c) = Parent(a) /\ c # a
       /\ \E f, g \in Range(PathsOf(scanResult.files)) :
            Below(f, b) /\ Below(g, c)

\* C20: the step that starts scanForTodos is taken when scanDirectory has
\* returned, and passes the files of that result; in dashboardCommand the
\* queries are at work while the scan is (either can take the next step),
\* and the tagger starts when the scan and all the queries are settled.
C20_TaggerAfterScan ==
  /\ [][(tagStatus = "idle" /\ tagStatus' # "idle") =>
          /\ scanStatus = "returned" /\ stack = <<>>
          /\ tagFiles' = scanResult.files
          /\ command = "dashboard" => gitPending = {}]_vars
  /\ [](tagStatus # "idle" =>
          /\ scanStatus = "returned" /\ tagFiles = scanResult.files
          /\ command = "dashboard" =>
               gitPending = {} /\ cmdStatus = "running")
  /\ []((command = "dashboard" /\ Running /\ AwaitsQueries) =>
          ENABLED ScanNext /\ ENABLED GitQueryResolves)

\* C20 witness: in dashboardCommand the tagger returned matches, after a
\* query was fulfilled while the scan was listing directories.
C20_Witness ==
  /\ command = "dashboard" /\ overlapped
  /\ TagReturned /\ results.totalCount > 0
  /\ Len(tagFiles) > 1

\* The result of scanning the entries es of directory d at depth k, added
\* to res, given the listings that were denied and the stats that failed.
RECURSIVE ScanOf(_, _, _, _)
ScanOf(d, k, es, res) ==
  IF es = <<>> THEN res
  ELSE
    LET en == Head(es)
        p == Append(d, en.name)
        withDir == [res EXCEPT !.directories = Append(@, p)]
    IN  ScanOf(d, k, Tail(es),
          CASE en.kind = "dir" /\ Includes(excludeDirs, en.name) -> res
            [] en.kind = "dir" /\ (maxDepth.finite /\ k >= maxDepth.n) ->
                 withDir
            [] en.kind = "dir" /\ p \in denied -> withDir
            [] en.kind = "dir" ->
                 LET sub == ScanOf(p, k + 1, Dirents(tree, p), EmptyScan)
                 IN  [files |-> withDir.files \o sub.files,
                      directories |-> withDir.directories \o sub.directories,
                      totalSize |-> withDir.totalSize + sub.totalSize]
            [] en.kind = "file" /\ p \notin statFailed ->
                 [res EXCEPT
                    !.files = Append(@, [path |-> p, name |-> en.name,
                                         size |-> StatSize(tree, p),
                                         extension |-> ExtName(en.name)]),
                    !.totalSize = @ + StatSize(tree, p)]
            [] OTHER -> res)

\* C21: only the innermost activation is at work, every other one awaits
\* the call it made on the entry it is at; results are merged into a caller
\* only in the step in which its callee returns, with all entries of the
\* callee handled (or its listing denied); and the result that is returned
\* is a function of the listings, the options and the failures.
C21_SequentialRecursion ==
  /\ [](\A n \in 1..(Len(stack) - 1) :
          /\ stack[n].pc = "await"
          /\ stack[n].i <= Len(stack[n].entries)
          /\ stack[n + 1].dirPath =
               Append(stack[n].dirPath, stack[n].entries[stack[n].i].name)
          /\ stack[n + 1].currentDepth = stack[n].currentDepth + 1)
  /\ [](Running => Top.pc \in {"readdir", "loop", "done"})
  /\ [][\A n \in 1..(Len(stack) - 1) :
          (n <= Len(stack') /\ stack'[n].results # stack[n].results) =>
            /\ n = Len(stack) - 1 /\ Len(stack') = n
            /\ \/ Top.dirPath \in denied /\ Top.results = EmptyScan
               \/ /\ Top.dirPath \in listed
                  /\ Top.i = Len(Dirents(tree, Top.dirPath)) + 1]_vars
  /\ [](scanStatus = "returned" =>
          scanResult = IF <<>> \in denied THEN EmptyScan
                       ELSE ScanOf(<<>>, 0, Dirents(tree, <<>>), EmptyScan))

\* C21 witness: an activation below the root is at work while
\* its callers await it, and the root's results already hold the files of a
\* subdirectory that was scanned before.
C21_Witness ==
  /\ Running /\ Len(stack) >= 2
  /\ Top.results.files # <<>>
  /\ \E i \in 1..Len(stack[1].results.files) :
       Len(stack[1].results.files[i].path) >= 2

\* C22: outside a Git repository dashboardCommand and insightsCommand can
\* only fail, with the "Not a Git repository" error, and no scan of the
\* directory or of the files ever starts; analyzeCommand and reportCommand
\* go on to scanDirectory and never print that error.
C22_NotAGitRepository ==
  /\ (command \in {"dashboard", "insights"} /\ ~isGit) =>
       /\ scanStatus = "idle" /\ stack = <<>> /\ listed = {}
       /\ tagStatus = "idle" /\ opened = <<>>
       /\ cmdStatus \in {"start", "failed"}
       /\ cmdStatus = "start" =>
            ENABLED NotAGitRepository /\ ~ENABLED ScanDirectoryCall
       /\ cmdStatus = "failed" => messages = {M_NotGitError}
  /\ (command \in {"analyze", "report"} /\ ~isGit) =>
       /\ M_NotGitError \notin messages
       /\ cmdStatus = "start" =>
            ENABLED ScanDirectoryCall /\ ~ENABLED NotAGitRepository
       /\ cmdStatus = "failed" => scanStatus = "thrown"

\* C22 witness: insightsCommand has failed outside a repository with the
\* error printed.
C22_Witness ==
  /\ command = "insights" /\ ~isGit
  /\ cmdStatus = "failed" /\ M_NotGitError \in messages

\* The message the README promises for an empty directory.
M_NoFilesFound == "No files found"

\* C23: when analyzeCommand has run to its end in a directory in which the
\* scan found no files, "No files found" has been printed.
C23_NoFilesFound ==
  (command = "analyze" /\ cmdStatus = "done" /\ scanResult.files = <<>>) =>
    M_NoFilesFound \in messages

\* Has healthCommand printed its score?
HealthDone == command = "health" /\ cmdStatus = "done"

\* Is n the integer nearest to num / den, the upper one at a tie?
IsNearest(n, num, den) ==
  /\ 2 * n * den - den <= 2 * num
  /\ 2 * num < 2 * n * den + den

C25_DepthLimit ==
  maxDepth.finite =>
    /\ \A d \in listed \cup denied : Len(d) <= maxDepth.n
    /\ \A k \in 1..Len(stack) :
         /\ stack[k].currentDepth = Len(stack[k].dirPath)
         /\ stack[k].currentDepth <= maxDepth.n
    /\ \A r \in ScanResults :
         /\ \A i \in 1..Len(r.files) :
              Len(r.files[i].path) - 1 <= maxDepth.n
         /\ \A i \in 1..Len(r.directories) :
              Len(r.directories[i]) - 1 <= maxDepth.n
    /\ scanStatus = "returned" =>
         \A d \in DirPaths :
           (Parent(d) \in listed /\ ~Includes(excludeDirs, Last(d))) =>
             /\ d \in Range(scanResult.directories)
             /\ (d \in listed \cup denied) <=> (Len(d) - 1 < maxDepth.n)

\* C25 witness: a scan with maxDepth 1 returned a file one level below the
\* root and a directory two levels below it that holds a directory and was
\* not listed.
C25_Witness ==
  /\ scanStatus = "returned" /\ maxDepth = Depth(1)
  /\ \E i \in 1..Len(scanResult.files) : Len(scanResult.files[i].path) = 2
  /\ \E d \in Range(scanResult.directories) :
       /\ Len(d) = 2 /\ d \notin listed \cup denied
       /\ \E c \in DirPaths : Parent(c) = d

\* The lines of a content.
RECURSIVE LinesOf(_, _, _)
LinesOf(s, i, cur) ==
  IF i > Len(s) THEN <<cur>>
  ELSE IF IsLineTerminator(s[i]) THEN <<cur>> \o LinesOf(s, i + 1, <<>>)
  ELSE LinesOf(s, i + 1, Append(cur, s[i]))

\* The comments the TODO pattern finds in each line on its own.
RECURSIVE PerLine(_)
PerLine(lines) ==
  IF lines = <<>> THEN <<>>
  ELSE Comments(Head(lines), KW_TODO) \o PerLine(Tail(lines))

\* Does the content hold the opening of a block comment?
HasBlock(s) == \E i \in 1..(Len(s) - 1) : s[i] = "/" /\ s[i + 1] = "*"

\* C26: in a content without block comments a match of the // or # shape
\* belongs to one line: it ends with its line, a later marker on that line
\* makes no match of its own, and markers on different lines make one match
\* each; so the comments recorded are those found line by line.
C26_MatchesPerLine ==
  (/\ tagStatus = "returned" /\ Len(tagFiles) = 1
   /\ ~HasBlock(ReadFile(tree, tagFiles[1].path))) =>
    [i \in 1..Len(results.todos) |-> results.todos[i].comment]
      = PerLine(LinesOf(ReadFile(tree, tagFiles[1].path), 1, <<>>))

Kinds == {"todos", "fixmes", "hacks"}

\* The items of one kind that the per-file reports give, report by report,
\* each with the base name of the path of its report.
RECURSIVE AggregateOf(_, _)
AggregateOf(details, kind) ==
  IF details = <<>> THEN <<>>
  ELSE [i \in 1..Len(Head(details)[kind]) |->
          [file |-> Last(Head(details).path),
           comment |-> Head(details)[kind][i]]]
       \o AggregateOf(Tail(details), kind)

RECURSIVE SumDetailCounts(_)
SumDetailCounts(details) ==
  IF details = <<>> THEN 0
  ELSE DetailCount(Head(details)) + SumDetailCounts(Tail(details))

\* Is sub a subsequence of seq (the same order, elements left out)?
RECURSIVE IsSubsequence(_, _)
IsSubsequence(sub, seq) ==
  IF sub = <<>> THEN TRUE
  ELSE IF seq = <<>> THEN FALSE
  ELSE IF Head(sub) = Head(seq) THEN IsSubsequence(Tail(sub), Tail(seq))
  ELSE IsSubsequence(sub, Tail(seq))

\* C27: at every point of scanForTodos, and in its result, the aggregate
\* sequence of each kind is the concatenation of the per-file sequences of
\* that kind in fileDetails order, each item with the base name of its file;
\* fileDetails is in the order of the input files; and in the result the
\* per-file counts add up to totalCount.
C27_AggregateMatchesDetails ==
  /\ \A kind \in Kinds :
       results[kind] = AggregateOf(results.fileDetails, kind)
  /\ IsSubsequence(PathsOf(results.fileDetails), PathsOf(tagFiles))
  /\ TagReturned =>
       SumDetailCounts(results.fileDetails) = results.totalCount

\* C27 witness: the tagger returned reports for three files or more, one of
\* them with two TODO comments.
C27_Witness ==
  /\ TagReturned /\ Len(results.fileDetails) >= 3
  /\ \E i \in 1..Len(results.fileDetails) :
       Len(results.fileDetails[i].todos) >= 2
  /\ results.fixmes # <<>> /\ results.hacks # <<>>

\* The directories met at the depth limit: not excluded, in a listed
\* directory whose depth is not below a finite maxDepth.
AtDepthLimit ==
  {d \in DirPaths : /\ Parent(d) \in listed
                    /\ ~Includes(excludeDirs, Last(d))
                    /\ maxDepth.finite /\ Len(d) - 1 >= maxDepth.n}

\* Does the result hold a file or a directory below d?
HoldsBelow(r, d) ==
  \/ \E i \in 1..Len(r.files) : Below(r.files[i].path, d)
  \/ \E i \in 1..Len(r.directories) : Below(r.directories[i], d)

\* C28: the directory of every recursive call is recorded by its caller
\* before the call; and in the result of a scan a subdirectory whose
\* listing was denied, and a subdirectory met at the depth limit, is in
\* directories while nothing below it is in files or directories.
C28_RecordedBeforeRecursion ==
  /\ \A k \in 2..Len(stack) :
       stack[k].dirPath \in Range(stack[k - 1].results.directories)
  /\ scanStatus = "returned" =>
       \A d \in (denied \ {<<>>}) \cup AtDepthLimit :
         /\ d \in Range(scanResult.directories)
         /\ ~HoldsBelow(scanResult, d)

\* C28 witness: a scan returned after the listing of a subdirectory that
\* holds entries was denied, and with a subdirectory that holds entries at
\* the depth limit.
C28_Witness ==
  /\ scanStatus = "returned"
  /\ \E d \in denied \ {<<>>} :
       /\ Lookup(tree, d).children # <<>>
       /\ d \in Range(scanResult.directories)
  /\ \E d \in AtDepthLimit :
       /\ Lookup(tree, d).children # <<>>
       /\ d \in Range(scanResult.directories)

\* The paths of the entries that are neither directories nor files.
OtherPaths ==
  {n.path : n \in {m \in Nodes(tree, <<>>) : m.kind \notin {"dir", "file"}}}

\* No entry of another kind is recorded, listed or scanned, and the
\* directory an activation is about to list was not listed before.
NeverFollowed ==
  /\ \A r \in ScanResults :
       /\ Range(PathsOf(r.files)) \cap OtherPaths = {}
       /\ Range(r.directories) \cap OtherPaths = {}
  /\ (listed \cup denied) \cap OtherPaths = {}
  /\ \A k \in 1..Len(stack) :
       /\ stack[k].dirPath \notin OtherPaths
       /\ stack[k].pc = "readdir" => stack[k].dirPath \notin listed \cup denied
       /\ \A j \in 1..Len(stack) : stack[j].dirPath = stack[k].dirPath => j = k

\* C29: entries that are neither directories nor regular files are never
\* recorded and never followed, no directory is listed twice, and a scan
\* that runs comes to its end: it returns unless a listing error was thrown.
C29_TerminatesVisitingOnce ==
  /\ []NeverFollowed
  /\ (scanStatus = "running") ~>
       (scanStatus = "returned" \/ scanError # NoError)

\* C29 witness: a scan without listing errors returned after it listed a
\* directory that holds an entry of another kind.
C29_Witness ==
  /\ scanStatus = "returned" /\ denied = {} /\ scanError = NoError
  /\ \E p \in OtherPaths : Parent(p) \in listed
  /\ Cardinality(listed) >= 3

\* The commands among the choices made.
CommandsChosen == SelectSeq(menu.chosen, LAMBDA c : c # "exit")

\* How many commands called have returned.
Returned == Cardinality({i \in 1..Len(menu.outcomes) :
                           menu.outcomes[i] = "returned"})

\* What holds of the menu at every moment.
MenuInvariant ==
  /\ menu.ran = CommandsChosen
  /\ Len(menu.exits) <= 1
  /\ (menu.exits # <<>>) <=> (menu.pc = "exited")
  /\ menu.asked = Returned
  /\ Len(menu.answers) <= menu.asked
  /\ \A i \in 1..Len(menu.chosen) :
       menu.chosen[i] = "exit" =>
         /\ i = Len(menu.chosen)
         /\ menu.exits = <<0>>
         /\ Len(menu.outcomes) = Len(menu.ran)
  /\ \A i \in 1..Len(menu.outcomes) :
       menu.outcomes[i] = "threw" =>
         /\ i = Len(menu.outcomes)
         /\ menu.exits = <<1>>
         /\ menu.asked = i - 1
  /\ \A i \in 1..Len(menu.answers) :
       ~menu.answers[i] => i = Len(menu.answers) /\ menu.exits = <<0>>

\* What holds of every step of the menu.
MenuStep ==
  /\ menu.pc = "prompt" /\ menu'.chosen # menu.chosen =>
       LET choice == menu'.chosen[Len(menu'.chosen)]
       IN  IF choice = "exit"
           THEN menu'.exits = <<0>> /\ menu'.ran = menu.ran
           ELSE menu'.ran = Append(menu.ran, choice) /\ menu'.pc = "running"
  /\ menu'.outcomes # menu.outcomes =>
       IF menu'.outcomes[Len(menu'.outcomes)] = "returned"
       THEN menu'.pc = "confirm" /\ menu'.asked = menu.asked + 1
       ELSE menu'.exits = <<1>> /\ menu'.asked = menu.asked
  /\ menu'.answers # menu.answers =>
       IF menu'.answers[Len(menu'.answers)]
       THEN menu'.pc = "prompt" /\ menu'.exits = <<>>
       ELSE menu'.exits = <<0>>
  /\ menu'.pc = "running" => menu.pc = "prompt"
  /\ menu'.pc = "prompt" => menu.pc = "confirm"

\* C30: in interactive mode, Exit ends the process with exit code 0 and no
\* command is called for it; any other choice calls exactly the command
\* chosen; when the command returns the menu asks whether to continue, yes
\* shows the menu again and no ends the process with exit code 0; when the
\* command throws the process ends with exit code 1 and nothing is asked.
C30_MenuLoop == []MenuInvariant /\ [][MenuStep]_vars

\* C30 witness: a command returned, the user went on, the next command
\* threw, and the process ended with exit code 1 after one question.
C30_Witness ==
  /\ menu.pc = "exited" /\ menu.exits = <<1>>
  /\ menu.outcomes = <<"returned", "threw">>
  /\ menu.answers = <<TRUE>> /\ menu.asked = 1
  /\ menu.ran = <<"health", "report">>

====
